---- MODULE Spec2Model ----
(***************************************************************************)
(* Model of the ESP32 ADS1115 logger web server (components/web_server).   *)
(*                                                                         *)
(* Bytes are one-element strings; the three bytes that the C string        *)
(* functions treat specially are named CR, LF and NUL.  A C string is a    *)
(* sequence of bytes that holds a NUL; positions are 1-based and 0 stands  *)
(* for the NULL pointer a failed search returns.                           *)
(***************************************************************************)
EXTENDS Integers, Sequences, FiniteSets, TLC

CR == "CR"
LF == "LF"
NUL == "NUL"

\* ---------------------------------------------------------------- bounds
\* longest upload payload that Init enumerates
MaxPayload == 2
\* most pieces (placeholders and plain bytes) of a template that Init enumerates
MaxPieces == 3
\* longest file name that Init hands to build_filepath
MaxName == 5

\* full reads of the receive loop in the longest body
MaxReads == 2
\* most calls of settings_save_channel_configs in a behaviour
MaxSaves == 3
\* most files stored by the HTTP server task during one search for a name
MaxUploads == 1
\* calls of set_last_voltages looked at
MaxSets == 2
\* entries of the card's directory looked at by delete_all_handler
MaxEntries == 3
\* bytes by which the longest file name of a part header exceeds the limit
MaxOver == 3
\* most entries of a directory that Init enumerates
MaxFiles == 14
\* the length of the long file name
LongName == 40
\* the length of the file name made of bytes that are URL encoded
EncodedName == 80

\* ------------------------------------------------------- program constants
UPLOAD_BUFFER_SIZE == 2048
FILE_PATH_MAX == 256
BOUNDARY_BUF_SIZE == 128
LIST_BUFFER_SIZE == 2048
ROW_ESTIMATE_FIXED == 350
REALLOC_SLACK == 1024
URL_BUF_SIZE == 512
MAX_LOG_INDEX == 999
CONTENT_TYPE_BUF_SIZE == 200
DUMMY_BUF_SIZE == 128
MAX_FILENAME_LEN == 128
OVERWRITE_VAL_SIZE == 10
HTTPD_SOCK_ERR_FAIL == -1
HTTPD_SOCK_ERR_TIMEOUT == -3

MOUNT_POINT == <<"/", "s", "d", "c", "a", "r", "d">>

\* ------------------------------------------------------------ C helpers
MIN(a, b) == IF a < b THEN a ELSE b

SetMin(S) == CHOOSE x \in S : \A y \in S : x <= y

\* the element of a one-element set; The({F(x) : x \in {e}}) is F(e) with e
\* computed once
The(S) == CHOOSE x \in S : TRUE

\* position of the first NUL of s at or after from (Len(s)+1 when there is none)
NulPos(s, from) ==
    LET Z == {i \in from..Len(s) : s[i] = NUL}
    IN IF Z = {} THEN Len(s) + 1 ELSE SetMin(Z)

\* strstr(s + from - 1, needle): the scan stops at the first NUL
StrStr(s, from, needle) ==
    LET lim == NulPos(s, from)
        H == {i \in from..(lim - Len(needle)) :
                 SubSeq(s, i, i + Len(needle) - 1) = needle}
    IN IF H = {} THEN 0 ELSE SetMin(H)

\* strchr(s + from - 1, c)
StrChr(s, from, c) ==
    LET lim == NulPos(s, from)
        H == {i \in from..(lim - 1) : s[i] = c}
    IN IF H = {} THEN 0 ELSE SetMin(H)

\* snprintf(dst, size, "%s%s", a, b): the stored string and the returned length
SnprintfCat(size, a, b) ==
    [str |-> SubSeq(a \o b, 1, MIN(Len(a) + Len(b), size - 1)),
     ret |-> Len(a) + Len(b)]

\* ------------------------------------------------------- build_filepath
RECURSIVE SanitizeDots(_)
SanitizeDots(dst) ==
    LET p == StrStr(dst \o <<NUL>>, 1, <<".", ".">>)
    IN IF p = 0 THEN dst
       ELSE SanitizeDots([dst EXCEPT ![p] = "_", ![p + 1] = "_"])

build_filepath(dst_size, path1, path2) ==
    SanitizeDots(SnprintfCat(dst_size, path1 \o <<"/">>, path2).str)

\* ------------------------------------------------- multipart vocabulary
Str_ContentDisposition ==
    <<"C", "o", "n", "t", "e", "n", "t", "-", "D", "i", "s", "p", "o", "s",
      "i", "t", "i", "o", "n", ":">>
Str_FilenameEq == <<"f", "i", "l", "e", "n", "a", "m", "e", "=", "\"">>
Str_CRLFCRLF == <<CR, LF, CR, LF>>
Str_BoundaryEq == <<"b", "o", "u", "n", "d", "a", "r", "y", "=">>
Str_Dashes == <<"-", "-">>
Str_Multipart ==
    <<"m", "u", "l", "t", "i", "p", "a", "r", "t", "/", "f", "o", "r", "m",
      "-", "d", "a", "t", "a">>

\* JSON texts of the upload handler
MsgNoData == "Nema podataka za upload (content length je 0 ili neispravan)."
MsgBufAlloc == "Interna greska servera (memorija za buffer)."
MsgBoundaryTooLong == "Boundary string u Content-Type zaglavlju je predugacak."
MsgNoBoundary == "Neispravan Content-Type, nedostaje boundary."
MsgNoContentType == "Nedostaje Content-Type zaglavlje."
MsgTimeout == "Timeout pri primanju podataka tijekom uploada."
MsgPeerClosed == "Veza prekinuta od klijenta."
MsgRecvError == "Greska pri primanju podataka tijekom uploada."
MsgConflict == "Datoteka '%s' vec postoji. Zelite li je prepisati?"
MsgOpenFailed == "Nije moguce otvoriti datoteku '%s' za pisanje. Greska: %s"
MsgNameAlloc == "Interna greska servera (memorija za ime filea)."
MsgNoClosingQuote == "Neispravan format zaglavlja uploada (ime filea nije parsirano)."
MsgNoFilename == "Ime datoteke nije pronadjeno u Content-Disposition zaglavlju."
MsgNoDisposition == "Nedostaje Content-Disposition zaglavlje."
MsgNoNameAtData == "Ime datoteke nije pronadjeno u zaglavlju uploada."
MsgSuccess == "Datoteka '%s' je uspjesno uploadana."
MsgGenericFailure == "Nije bilo moguce obraditi datoteku. Provjerite ime datoteke i dostupnost SD kartice."

\* cJSON object built for the reply: status, message and the optional filename
\* (the empty sequence when the object has no filename member)
JsonObj(status, message, fname) ==
    [null |-> FALSE, status |-> status, message |-> message,
     filename |-> fname]

\* root_json == NULL
JsonNull == [null |-> TRUE, status |-> "", message |-> "", filename |-> <<>>]

\* a char* that owns heap memory: NULL, live or freed, and the string it holds
NullStr == [ptr |-> "NULL", str |-> <<>>]

\* a path of the card that holds no file, and one that holds bytes
NoFile == [exists |-> FALSE, bytes |-> <<>>]
File(bytes) == [exists |-> TRUE, bytes |-> bytes]

\* nothing sent yet, a JSON reply, and the reply of httpd_resp_send_err
NoResponse == [kind |-> "none", status |-> "", body |-> JsonNull]
JsonResponse(status, obj) == [kind |-> "json", status |-> status, body |-> obj]
ErrResponse(status) == [kind |-> "err", status |-> status, body |-> JsonNull]

\* the read that ended the receive loop
NoFailure == [failed |-> FALSE, ret |-> 0]
Failure(ret) == [failed |-> TRUE, ret |-> ret]

\* ------------------------------------------------------------ the state
VARIABLES
    \* the request and its environment
    req_body,           \* the bytes of the request body, content_len of them
    content_len,        \* req->content_len
    content_type,       \* the Content-Type request header
    url_query,          \* the URL query string
    storage,            \* the files of the SD card: path -> bytes, or NULL
    \* locals of upload_post_handler
    pc,                 \* "start", "recv" (head of the receive loop),
                        \* "drain" (head of the drain loop), "done"
    remaining, buf, filename, filepath, fd, file_data_started, boundary,
    root_json,
    \* the response
    resp_status,        \* status line chosen with httpd_resp_set_status
    response,           \* what was sent, NULL before
    retval,             \* the handler's return value, NULL before
    \* the transport
    rx,                 \* body bytes delivered so far by httpd_req_recv
    \* history of the request
    payload,            \* the file bytes the client put into the body
    storage0,           \* the card before the request
    recv_called,        \* httpd_req_recv has been called
    late_reads,         \* calls of httpd_req_recv made after a read had failed
    written,            \* bytes handed to fwrite, in order
    split,              \* a read ended inside a boundary token or a CRLFCRLF
    buf_allocs, buf_frees, name_allocs, name_frees, fopen_calls, fclose_calls,
    checks,             \* runs of the existence check (stat)
    parsed,             \* the header extractor has found a filename
    fail_ret,           \* the value of the read that ended the main loop
    over_ask,           \* the drain loop asked for more than was outstanding
    env_fail            \* an allocation or fopen failed

uploadVars ==
    <<req_body, content_len, content_type, url_query, storage, pc, remaining,
      buf, filename, filepath, fd, file_data_started, boundary, root_json,
      resp_status, response, retval, rx, payload, storage0, recv_called, late_reads,
      written, split, buf_allocs, buf_frees, name_allocs, name_frees,
      fopen_calls, fclose_calls, checks, parsed, fail_ret, over_ask,
      env_fail>>

\* one run of send_message_response, or of the template part of
\* list_get_handler
VARIABLES
    template,           \* the embedded document [start, end): text and its NUL
    values,             \* title, message_class, message_text; or the file list
    tpc,                \* "loop" (head of the placeholder loop), "list" and
                        \* "list_tail" (list_get_handler), "done"; "call"
                        \* while list_get_handler reads the directory
    template_ptr,       \* the cursor, a position of template
    ph_i,               \* the loop index i, 0-based as in the code
    sent,               \* the chunks handed to httpd_resp_send_chunk, in order
    msg_ret,            \* the return value, "NULL" before
    file_list_html,     \* the heap buffer of list_get_handler: "NULL", "live",
                        \* "freed"
    \* history of the render
    spans,              \* the ranges <<from, to>> of template emitted, in order
    send_failed,        \* a call of httpd_resp_send_chunk has failed
    late_sends,         \* calls of httpd_resp_send_chunk made after a failure
    list_frees          \* calls of free(file_list_html)

tmplVars ==
    <<template, values, tpc, template_ptr, ph_i, sent, msg_ret,
      file_list_html, spans, send_failed, late_sends, list_frees>>

\* one call of build_filepath
VARIABLES
    path2,              \* the file name argument, a string or NULL
    dst,                \* the output buffer as a C string
    bpc,                \* "call", "loop" (head of the while loop), "done"
    replaced            \* passes of the while loop so far

pathVars == <<path2, dst, bpc, replaced>>

\* the tasks that share the logging state and the name of the log file
VARIABLES
    ctx_pc,             \* where each execution context stands
    mutex,              \* the holder of logging_mutex and of
                        \* g_log_file_path_mutex, or "free"
    g_log_file_path_mutex, \* "NULL" when app_main could not create it
    logging_active,
    last_voltages,
    g_current_log_filepath, \* the buffer: a name, or "partial" during strncpy
    log_file,           \* FILE *file of ads1115_log_task: "NULL" or "open"
    status,             \* per context: the value is_logging_enabled returned
    arg,                \* per context: the argument of set_logging_active
    final_values,       \* the samples ads1115_log_task hands over
    http_req,           \* the handler the HTTP server task is running
    clf_ptr,            \* what get_current_log_file_name returned
    clf_body,           \* the last body sent by current_log_file_handler
    led                 \* the colour of the WS2812 LED

taskVars ==
    <<ctx_pc, mutex, g_log_file_path_mutex, logging_active, last_voltages,
      g_current_log_filepath, log_file, status, arg, final_values, http_req,
      clf_ptr, clf_body, led>>

\* the sizes of the receive loop of upload_post_handler
VARIABLES
    recv_pc,            \* "loop" (head of the while loop), "done"
    recv_len,           \* req->content_len
    recv_remaining,     \* remaining
    recv_rx,            \* bytes of the body the transport has handed over
    recv_asked,         \* the size argument of the last httpd_req_recv
    recv_ret,           \* ret of the last httpd_req_recv
    buf_nul             \* the index of buf the last '\0' was stored at, or -1

sizeVars ==
    <<recv_pc, recv_len, recv_remaining, recv_rx, recv_asked, recv_ret,
      buf_nul>>

\* the settings module: the channel configurations in RAM and in NVS
VARIABLES
    channel_configs,    \* the static array of settings.c
    nvs_blob,           \* the blob stored under KEY_CHAN_CONFIGS, <<>> for none
    save_calls,         \* calls of settings_save_channel_configs so far
    save_configs,       \* the argument of the last call: a pointer
    save_err,           \* what the last call returned
    save_failed_at      \* the step of the last call that failed, or "none"

nvsVars ==
    <<channel_configs, nvs_blob, save_calls, save_configs, save_err,
      save_failed_at>>

\* list_get_handler while it reads the directory
VARIABLES
    list_pc,            \* "call", "readdir" (head of the while loop), "emit"
                        \* (the template part), "message" (an error page)
    dir_entries,        \* what readdir has still to return, in order
    file_list_len,
    file_list_buffer_size,
    list_buf,           \* the bytes of the block file_list_html points to,
                        \* up to its '\0'
    list_block,         \* the heap block file_list_html points to; 0 for none
    realloc_failed,     \* realloc has returned NULL
    rows_written        \* calls of the snprintf that writes a row

rowVars ==
    <<list_pc, dir_entries, file_list_len, file_list_buffer_size, list_buf,
      list_block, realloc_failed, rows_written>>

\* the file name of an upload, from the part header to the path
VARIABLES
    x_pc,               \* "chunk" (the header is in buf), "named" (filename
                        \* is set), "built" (filepath is set), "failed"
    hdr_name,           \* the bytes between filename=" and the next quote
    x_filename,         \* filename
    x_filepath          \* filepath

nameVars == <<x_pc, hdr_name, x_filename, x_filepath>>

\* one call of open_next_log_file, and the card it looks at
VARIABLES
    onl_pc,             \* "test" (fopen "r" is next), "open" (fopen "w" is
                        \* next), "done"
    onl_i,              \* the loop index i
    card_logs,          \* the numbers N for which log_N.csv exists
    onl_ret,            \* the return value: 0 before the return, -1 for NULL,
                        \* N for the stream of log_N.csv
    onl_name,           \* the number in g_current_log_filepath; 0 for "N/A"
    onl_created,        \* files fopen "w" has created
    onl_truncated,      \* files that existed when fopen "w" opened them
    card_uploads        \* log files the HTTP server task has stored meanwhile

logfVars ==
    <<onl_pc, onl_i, card_logs, onl_ret, onl_name, onl_created,
      onl_truncated, card_uploads>>

\* adc_handler and set_last_voltages, their copies taken element by element
VARIABLES
    voltages,           \* float voltages[NUM_CHANNELS] of adc_handler
    slv_i,              \* elements memcpy has copied in set_last_voltages
    adc_i,              \* elements memcpy has copied in adc_handler
    slv_calls,          \* calls of set_last_voltages so far
    handed,             \* the arrays handed to set_last_voltages so far
    reported            \* the values of the last /adc response, <<>> before

adcVars == <<voltages, slv_i, adc_i, slv_calls, handed, reported>>

\* one request served by delete_handler or by delete_all_handler
VARIABLES
    del_pc,             \* "start", "query", "unlink", "readdir", "send",
                        \* "done"
    del_req,            \* "delete" or "delete_all"
    del_query,          \* the URL query of /delete
    del_card,           \* the names of the files on the card
    del_dir,            \* the entries readdir has still to return
    del_json,           \* root_json: "NULL", "live", "freed"
    del_status,         \* the "status" member of root_json, "" before
    op_status,          \* op_status of delete_handler
    query_buf,          \* "NULL", "live", "freed"
    deleted_count, failed_count,
    del_response,       \* "none", "json", "500"
    del_ret,            \* the return value, "NULL" before
    json_creates,       \* objects cJSON_CreateObject has returned
    json_deletes,       \* calls of cJSON_Delete(root_json)
    query_frees         \* calls of free(query_buf)

delVars ==
    <<del_pc, del_req, del_query, del_card, del_dir, del_json, del_status,
      op_status, query_buf, deleted_count, failed_count, del_response,
      del_ret, json_creates, json_deletes, query_frees>>

tailVars == <<adcVars, delVars>>

lateVars == <<sizeVars, nvsVars, rowVars, nameVars, logfVars, tailVars>>

vars == <<uploadVars, tmplVars, pathVars, taskVars, lateVars>>

\* the handler's state as one record, so that its steps are functions
Cur ==
    [pc |-> pc, remaining |-> remaining, buf |-> buf, filename |-> filename,
     filepath |-> filepath, fd |-> fd,
     file_data_started |-> file_data_started, boundary |-> boundary,
     root_json |-> root_json, resp_status |-> resp_status,
     response |-> response, retval |-> retval, storage |-> storage,
     rx |-> rx, recv_called |-> recv_called, late_reads |-> late_reads,
     written |-> written,
     split |-> split, buf_allocs |-> buf_allocs, buf_frees |-> buf_frees,
     name_allocs |-> name_allocs, name_frees |-> name_frees,
     fopen_calls |-> fopen_calls, fclose_calls |-> fclose_calls,
     checks |-> checks, parsed |-> parsed, fail_ret |-> fail_ret, over_ask |-> over_ask,
     env_fail |-> env_fail]

Assign(n) ==
    /\ pc' = n.pc /\ remaining' = n.remaining /\ buf' = n.buf
    /\ filename' = n.filename /\ filepath' = n.filepath /\ fd' = n.fd
    /\ file_data_started' = n.file_data_started /\ boundary' = n.boundary
    /\ root_json' = n.root_json /\ resp_status' = n.resp_status
    /\ response' = n.response /\ retval' = n.retval /\ storage' = n.storage
    /\ rx' = n.rx /\ recv_called' = n.recv_called
    /\ late_reads' = n.late_reads /\ written' = n.written
    /\ split' = n.split /\ buf_allocs' = n.buf_allocs
    /\ buf_frees' = n.buf_frees /\ name_allocs' = n.name_allocs
    /\ name_frees' = n.name_frees /\ fopen_calls' = n.fopen_calls
    /\ fclose_calls' = n.fclose_calls /\ checks' = n.checks
    /\ parsed' = n.parsed
    /\ fail_ret' = n.fail_ret /\ over_ask' = n.over_ask
    /\ env_fail' = n.env_fail
    /\ UNCHANGED <<req_body, content_len, content_type, url_query, payload,
                   storage0>>
    /\ UNCHANGED <<tmplVars, pathVars, taskVars, lateVars>>

\* ------------------------------------------- upload_post_handler: exits
\* send_json_upload_response: serialise root_json and send it
send_json_upload_response(L, print_ok) ==
    IF L.root_json.null \/ ~print_ok
    THEN [L EXCEPT !.response = ErrResponse("500 Internal Server Error"),
                   !.retval = "ESP_FAIL", !.pc = "done"]
    ELSE [L EXCEPT !.response = JsonResponse(L.resp_status, L.root_json),
                   !.retval = "ESP_OK", !.pc = "done"]

\* the reply that reports a failure whatever the handler holds
DefaultResult_AlwaysError(fname, fdv) ==
    JsonObj("error", MsgGenericFailure, <<>>)

\* the reply chosen when no branch has built one
DefaultResult(fname, fdv) ==
    IF fname.ptr # "NULL" /\ fdv # "NULL"
    THEN JsonObj("success", MsgSuccess, fname.str)
    ELSE JsonObj("error", MsgGenericFailure, <<>>)

\* the sink closed only on the path that built no error object
CloseSink_OnlyOnSuccess(L) ==
    IF L.fd # "NULL" /\ L.root_json.null
    THEN [L EXCEPT !.fd = "closed", !.fclose_calls = @ + 1]
    ELSE L

\* if (fd) fclose(fd);
CloseSink(L) ==
    IF L.fd # "NULL"
    THEN [L EXCEPT !.fd = "closed", !.fclose_calls = @ + 1]
    ELSE L

\* if (buf) free(buf);
FreeBuf(L) ==
    IF L.buf # "NULL"
    THEN [L EXCEPT !.buf = "freed", !.buf_frees = @ + 1]
    ELSE L

\* if (filename) free(filename);
FreeFilename(L) ==
    IF L.filename.ptr # "NULL"
    THEN [L EXCEPT !.filename.ptr = "freed", !.name_frees = @ + 1]
    ELSE L

\* cleanup_and_send_json, which falls through to send_json_upload_response
cleanup_and_send_json(L, print_ok) ==
    The({The({send_json_upload_response(c, print_ok) :
              c \in {FreeFilename(
                        IF a.root_json.null
                        THEN [a EXCEPT !.root_json =
                                           DefaultResult(a.filename, a.fd)]
                        ELSE a)}}) :
         a \in {FreeBuf(CloseSink(L))}})

\* leave for cleanup_and_send_json with an error object
FailWith(L, message, print_ok) ==
    cleanup_and_send_json(
        [L EXCEPT !.root_json = JsonObj("error", message, <<>>)], print_ok)

\* ------------------------------------- upload_post_handler: before the loop
\* the Content-Type header: absent, or its text
NoHeader == [present |-> FALSE, text |-> <<>>]
Header(text) == [present |-> TRUE, text |-> text]

\* httpd_req_get_hdr_value_str(req, "Content-Type", dst, size) == ESP_OK
HdrValueOk(hdr, size) == hdr.present /\ Len(hdr.text) < size

\* the extraction that goes on with the bare "--" when no boundary is given
ExtractBoundary_DefaultsToDashes(hdr) ==
    IF ~HdrValueOk(hdr, CONTENT_TYPE_BUF_SIZE)
    THEN [ok |-> TRUE, msg |-> "", boundary |-> Str_Dashes]
    ELSE LET h == hdr.text \o <<NUL>>
             p == StrStr(h, 1, Str_BoundaryEq)
         IN IF p = 0
            THEN [ok |-> TRUE, msg |-> "", boundary |-> Str_Dashes]
            ELSE LET v == SubSeq(h, p + Len(Str_BoundaryEq),
                                 NulPos(h, p) - 1)
                     r == SnprintfCat(BOUNDARY_BUF_SIZE, Str_Dashes, v)
                 IN [ok |-> TRUE, msg |-> "", boundary |-> r.str]

\* the boundary extraction: the error message, or the token "--<value>"
ExtractBoundary(hdr) ==
    IF ~HdrValueOk(hdr, CONTENT_TYPE_BUF_SIZE)
    THEN [ok |-> FALSE, msg |-> MsgNoContentType, boundary |-> <<>>]
    ELSE LET h == hdr.text \o <<NUL>>
             p == StrStr(h, 1, Str_BoundaryEq)
         IN IF p = 0
            THEN [ok |-> FALSE, msg |-> MsgNoBoundary, boundary |-> <<>>]
            ELSE LET v == SubSeq(h, p + Len(Str_BoundaryEq),
                                 NulPos(h, p) - 1)
                     r == SnprintfCat(BOUNDARY_BUF_SIZE, Str_Dashes, v)
                 IN IF r.ret >= BOUNDARY_BUF_SIZE
                    THEN [ok |-> FALSE, msg |-> MsgBoundaryTooLong,
                          boundary |-> r.str]
                    ELSE [ok |-> TRUE, msg |-> "", boundary |-> r.str]

\* handler entry up to the head of the receive loop
UploadEntry(L, clen, hdr, buf_ok, print_ok) ==
    LET L0 == [L EXCEPT !.remaining = clen]
    IN IF L0.remaining <= 0
       THEN send_json_upload_response(
                [L0 EXCEPT !.root_json = JsonObj("error", MsgNoData, <<>>)],
                print_ok)
       ELSE IF ~buf_ok
       THEN LET obj == JsonObj("error", MsgBufAlloc, <<>>)
            IN [L0 EXCEPT !.root_json = obj,
                          !.response = IF print_ok
                                       THEN JsonResponse(L0.resp_status, obj)
                                       ELSE ErrResponse("500 Internal Server Error"),
                          !.retval = "ESP_FAIL", !.pc = "done",
                          !.env_fail = TRUE]
       ELSE LET L1 == [L0 EXCEPT !.buf = "live", !.buf_allocs = @ + 1]
                b == ExtractBoundary(hdr)
            IN IF ~b.ok
               THEN FailWith([L1 EXCEPT !.boundary = b.boundary], b.msg,
                             print_ok)
               ELSE [L1 EXCEPT !.boundary = b.boundary, !.pc = "recv"]

upload_entry ==
    /\ pc = "start"
    /\ \E buf_ok \in BOOLEAN, print_ok \in BOOLEAN :
           \E L \in {Cur} :
           \E n \in {UploadEntry(L, content_len, content_type, buf_ok,
                                 print_ok)} : Assign(n)

\* ------------------------------------------------------ the transport
\* httpd_req_recv(req, dst, n): the values it can return.  The server never
\* hands out more than the declared body, and returns 0 once nothing of it
\* is outstanding; a read can deliver fewer bytes than asked for, find the
\* peer gone (0), fail (HTTPD_SOCK_ERR_FAIL) or time out.
httpd_req_recv(n, outstanding) ==
    LET m == MIN(n, outstanding)
    IN IF m <= 0 THEN {0}
       ELSE (1..m) \cup {0, HTTPD_SOCK_ERR_FAIL, HTTPD_SOCK_ERR_TIMEOUT}

\* a read that ends after byte pos of the body ends inside an occurrence of tok
CutsToken(body, pos, tok) ==
    \E st \in 1..(Len(body) - Len(tok) + 1) :
        /\ SubSeq(body, st, st + Len(tok) - 1) = tok
        /\ st <= pos /\ pos < st + Len(tok) - 1

\* ---------------------------------------------- the overwrite parameter
ToLower(c) ==
    CASE c = "T" -> "t" [] c = "R" -> "r" [] c = "U" -> "u" [] c = "E" -> "e"
      [] OTHER -> c

\* strcasecmp(a, b) == 0
StrCaseEq(a, b) ==
    /\ Len(a) = Len(b)
    /\ \A i \in 1..Len(a) : ToLower(a[i]) = ToLower(b[i])

\* httpd_query_key_value(query, key, val, val_size): found and fits
QueryKeyValue(query, key, val_size) ==
    LET H == {i \in 1..Len(query) : query[i].key = key}
    IN IF H = {} THEN [ok |-> FALSE, val |-> <<>>]
       ELSE LET v == query[SetMin(H)].val
            IN IF Len(v) < val_size THEN [ok |-> TRUE, val |-> v]
               ELSE [ok |-> FALSE, val |-> <<>>]

\* should_overwrite, as the handler reads it from the URL query
ShouldOverwrite(query, alloc_ok) ==
    IF Len(query) = 0 THEN FALSE
    ELSE IF ~alloc_ok THEN FALSE
    ELSE LET r == QueryKeyValue(query, "overwrite", OVERWRITE_VAL_SIZE)
         IN r.ok /\ StrCaseEq(r.val, <<"t", "r", "u", "e">>)

\* ------------------------------------------------------------- the sink
\* the sink opened without truncation: what the file held stays in front
FopenWb_Appends(L, path) ==
    [L EXCEPT !.fd = "open", !.fopen_calls = @ + 1,
              !.storage = [@ EXCEPT ![path] = File(@.bytes)]]

\* fopen(filepath, "wb"): the file is created or truncated
FopenWb(L, path) ==
    [L EXCEPT !.fd = "open", !.fopen_calls = @ + 1,
              !.storage = [@ EXCEPT ![path] = File(<<>>)]]

\* fwrite(p, 1, n, fd)
Fwrite(L, bytes) ==
    [L EXCEPT !.written = @ \o bytes,
              !.storage = [@ EXCEPT ![L.filepath] =
                               File(@.bytes \o bytes)]]

\* stat(filepath, &st) == 0
FileExists(store, path) == path \in DOMAIN store /\ store[path].exists

\* the refusal with the test of the overwrite flag inverted
IsConflict_FlagInverted(file_exists, should_overwrite) ==
    file_exists /\ should_overwrite

\* the refusal that does not look at the existence of the file
IsConflict_IgnoresExistence(file_exists, should_overwrite) == ~should_overwrite

\* the resolver's decision: refuse the upload
IsConflict(file_exists, should_overwrite) == file_exists /\ ~should_overwrite

\* a flush that leaves the line end in front of the token in the payload
TrimmedLen_NoTrim(b, from, bpos) == bpos - from

\* the positions of b the two tests of the trim read, && evaluated left to
\* right: *(p - 1) only when the length test passed, *(p - 2) only when
\* *(p - 1) was LF
TrimInspects(b, from, bpos) ==
    LET n == bpos - from
    IN IF n >= 2
       THEN IF b[bpos - 1] = LF THEN {bpos - 1, bpos - 2} ELSE {bpos - 1}
       ELSE IF n >= 1 THEN {bpos - 1} ELSE {}

\* payload bytes of b in front of the boundary found at bpos, the data
\* starting at position from: the CRLF or LF in front of the token is dropped
TrimmedLen(b, from, bpos) ==
    LET n == bpos - from
    IN IF n >= 2 /\ b[bpos - 1] = LF /\ b[bpos - 2] = CR THEN n - 2
       ELSE IF n >= 1 /\ b[bpos - 1] = LF THEN n - 1
       ELSE n

\* scan the data that starts at position from of the chunk b (ret bytes and
\* the NUL the handler puts behind them) for the boundary and flush it
\* a flush that takes the data for a string: without a token it writes up to
\* the first NUL only
FlushUpTo_AsString(L, b, ret, from, bpos) ==
    LET n == IF bpos # 0 THEN TrimmedLen(b, from, bpos)
             ELSE NulPos(b, from) - from
        L1 == IF bpos # 0 THEN [L EXCEPT !.remaining = 0] ELSE L
    IN IF n > 0 THEN Fwrite(L1, SubSeq(b, from, from + n - 1)) ELSE L1

\* a flush that leaves the byte counter alone when the token is found
FlushUpTo_KeepsCounting(L, b, ret, from, bpos) ==
    LET n == IF bpos # 0 THEN TrimmedLen(b, from, bpos)
             ELSE ret - (from - 1)
    IN IF n > 0 THEN Fwrite(L, SubSeq(b, from, from + n - 1)) ELSE L

FlushUpTo(L, b, ret, from, bpos) ==
    LET n == IF bpos # 0 THEN TrimmedLen(b, from, bpos)
             ELSE ret - (from - 1)
        L1 == IF bpos # 0 THEN [L EXCEPT !.remaining = 0] ELSE L
    IN IF n > 0 THEN Fwrite(L1, SubSeq(b, from, from + n - 1)) ELSE L1

FlushData(L, b, ret, from) ==
    The({FlushUpTo(L, b, ret, from, bpos) :
         bpos \in {StrStr(b, from, L.boundary)}})

\* chunks that arrive while no sink is open: only a boundary ends the loop
DiscardData(L, b, from) ==
    IF StrStr(b, from, L.boundary) # 0 THEN [L EXCEPT !.remaining = 0] ELSE L

\* ----------------------------------- upload_post_handler: the receive loop
\* the header extractor over the chunk b: the filename, or the error message
\* a missing closing quote reported as a missing filename
FilenameBetween_SameError(b, cd, fs) ==
    [ok |-> FALSE, msg |-> MsgNoFilename, name |-> <<>>]

\* a name that is copied whole, whatever its length
FilenameBetween_NoLimit(b, cd, fs) ==
    LET st == fs + Len(Str_FilenameEq)
    IN The({[ok |-> TRUE, msg |-> "", name |-> SubSeq(b, st, en - 1)] :
            en \in {StrChr(b, st, "\"")}})

FilenameBetween(b, cd, fs) ==
    LET st == fs + Len(Str_FilenameEq)
    IN The({IF ~(en # 0 /\ en > st)
            THEN [ok |-> FALSE, msg |-> MsgNoClosingQuote, name |-> <<>>]
            ELSE [ok |-> TRUE, msg |-> "",
                  name |-> SubSeq(b, st,
                                  st + MIN(en - st, MAX_FILENAME_LEN) - 1)] :
            en \in {StrChr(b, st, "\"")}})

ExtractFilename(b) ==
    The({IF cd = 0
         THEN [ok |-> FALSE, msg |-> MsgNoDisposition, name |-> <<>>]
         ELSE The({IF fs = 0
                   THEN [ok |-> FALSE, msg |-> MsgNoFilename, name |-> <<>>]
                   ELSE FilenameBetween(b, cd, fs) :
                   fs \in {StrStr(b, cd, Str_FilenameEq)}}) :
         cd \in {StrStr(b, 1, Str_ContentDisposition)}})

\* the environment of one iteration: do the allocations and fopen succeed,
\* can the reply be serialised
EnvAllOk == [name_ok |-> TRUE, query_ok |-> TRUE, fopen_ok |-> TRUE]
Envs == [name_ok : BOOLEAN, query_ok : BOOLEAN, fopen_ok : BOOLEAN]

\* the filename is not known yet: extract it, resolve the conflict, open the
\* sink.  next is "scan" (go on with this chunk), "drain" or "cleanup".
\* the conflict resolver and the opening of the sink for the file name
\* a resolver that opens the sink without looking at the card
ResolveAndOpen_NoCheck(L, name, path, query, env) ==
    [L |-> FopenWb([L EXCEPT !.filename = [ptr |-> "live", str |-> name],
                             !.name_allocs = @ + 1,
                             !.parsed = TRUE,
                             !.filepath = path], path),
     next |-> "scan"]

ResolveAndOpen(L, name, path, query, env) ==
    LET L1 == [L EXCEPT !.filename = [ptr |-> "live", str |-> name],
                        !.name_allocs = @ + 1,
                        !.parsed = TRUE,
                        !.filepath = path,
                        !.checks = @ + 1]
        should_overwrite == ShouldOverwrite(query, env.query_ok)
    IN IF IsConflict(FileExists(L.storage, path), should_overwrite)
       THEN [L |-> [L1 EXCEPT !.resp_status = "409 Conflict",
                              !.root_json = JsonObj("conflict", MsgConflict,
                                                    name)],
             next |-> "drain"]
       ELSE IF ~env.fopen_ok
       THEN [L |-> [L1 EXCEPT !.root_json = JsonObj("error", MsgOpenFailed,
                                                    <<>>),
                              !.env_fail = TRUE],
             next |-> "cleanup"]
       ELSE [L |-> FopenWb(L1, path), next |-> "scan"]

ParseHeaders(L, b, query, env) ==
    The({IF ~x.ok
         THEN [L |-> [L EXCEPT !.root_json = JsonObj("error", x.msg, <<>>)],
               next |-> "cleanup"]
         ELSE IF ~env.name_ok
         THEN [L |-> [L EXCEPT !.root_json = JsonObj("error", MsgNameAlloc,
                                                     <<>>),
                               !.parsed = TRUE, !.env_fail = TRUE],
               next |-> "cleanup"]
         ELSE The({ResolveAndOpen(L, x.name, path, query, env) :
                   path \in {build_filepath(FILE_PATH_MAX, MOUNT_POINT,
                                            x.name)}}) :
         x \in {ExtractFilename(b)}})

\* a chunk without separator that is flushed to the open sink
HeaderChunk_Persisted(L, b, ret) ==
    IF L.fd = "open" THEN Fwrite(L, SubSeq(b, 1, ret)) ELSE L

\* a chunk without separator that is taken for the start of the data
HeaderChunk_StartsData(L, b, ret) == [L EXCEPT !.file_data_started = TRUE]

\* a chunk without separator is header material: nothing is written
HeaderChunk(L, b, ret) == L

\* look for the header/body separator in the chunk b
DataAfterSeparator(L, b, ret, sep) ==
    LET from == sep + Len(Str_CRLFCRLF)
    IN IF sep = 0 THEN [L |-> HeaderChunk(L, b, ret), next |-> "loop"]
       ELSE IF L.fd # "NULL" /\ L.filename.ptr # "NULL"
       THEN [L |-> [FlushData(L, b, ret, from) EXCEPT
                        !.file_data_started = TRUE],
             next |-> "loop"]
       ELSE IF L.filename.ptr # "NULL"
       THEN [L |-> [DiscardData(L, b, from) EXCEPT
                        !.file_data_started = TRUE],
             next |-> "loop"]
       ELSE [L |-> [L EXCEPT !.root_json = JsonObj("error", MsgNoNameAtData,
                                                   <<>>)],
             next |-> "cleanup"]

ScanSeparator(L, b, ret) ==
    The({DataAfterSeparator(L, b, ret, sep) :
         sep \in {StrStr(b, 1, Str_CRLFCRLF)}})

\* the body of the loop for one chunk of ret bytes; b is the chunk and the
\* NUL the handler stores behind it
ProcessChunk(L, b, ret, query, env) ==
    IF ~L.file_data_started
    THEN The({IF h.next = "scan" THEN The({ScanSeparator(hL, b, ret) :
                                           hL \in {h.L}})
              ELSE h :
              h \in {IF L.filename.ptr = "NULL"
                     THEN ParseHeaders(L, b, query, env)
                     ELSE [L |-> L, next |-> "scan"]}})
    ELSE IF L.fd # "NULL"
    THEN [L |-> FlushData(L, b, ret, 1), next |-> "loop"]
    ELSE [L |-> DiscardData(L, b, 1), next |-> "loop"]

\* the message that does not tell a timeout from a socket failure
RecvErrorMessage_NoTimeout(ret, rem) ==
    IF ret = 0 /\ rem > 0 THEN MsgPeerClosed ELSE MsgRecvError

\* the message of the error object for a failed read
RecvErrorMessage(ret, rem) ==
    IF ret = HTTPD_SOCK_ERR_TIMEOUT THEN MsgTimeout
    ELSE IF ret = 0 /\ rem > 0 THEN MsgPeerClosed
    ELSE MsgRecvError

\* a read that may fill the whole buffer
RecvRequest_WholeBuffer(rem) == MIN(rem, UPLOAD_BUFFER_SIZE)

\* the size the main loop asks the transport for
RecvRequest(rem) == MIN(rem, UPLOAD_BUFFER_SIZE - 1)

\* the size the drain loop asks the transport for
DrainRequest(rem) == MIN(rem, DUMMY_BUF_SIZE)

\* remaining -= n without the test that follows it
Consume_Unclamped(rem, n) == rem - n

\* remaining -= n; if (remaining < 0) remaining = 0;
Consume(rem, n) == IF rem - n < 0 THEN 0 ELSE rem - n

\* the history of a call of httpd_req_recv
CountRead(L) ==
    [L EXCEPT !.recv_called = TRUE,
              !.late_reads = IF L.fail_ret.failed THEN @ + 1 ELSE @]

\* one pass of the drain loop of the conflict branch
DrainIteration(L, clen, read_now, print_ok) ==
    LET L0 == [CountRead(L) EXCEPT
                        !.over_ask = @ \/ DrainRequest(L.remaining) > clen - L.rx]
    IN IF read_now <= 0 THEN cleanup_and_send_json(L0, print_ok)
       ELSE LET L1 == [L0 EXCEPT !.rx = @ + read_now,
                                 !.remaining = Consume(@, read_now)]
            IN IF L1.remaining > 0 THEN L1
               ELSE cleanup_and_send_json(L1, print_ok)

\* one pass of the main loop: the read, the chunk, remaining -= ret
\* the end of a pass: leave the loop, drain, or remaining -= ret
EndOfPass(rL, next, ret, print_ok) ==
    CASE next = "cleanup" -> cleanup_and_send_json(rL, print_ok)
      [] next = "drain" ->
           IF rL.remaining > 0 THEN [rL EXCEPT !.pc = "drain"]
           ELSE cleanup_and_send_json(rL, print_ok)
      [] OTHER ->
           The({IF L2.remaining > 0 THEN L2
                ELSE cleanup_and_send_json(L2, print_ok) :
                L2 \in {[rL EXCEPT !.remaining = Consume(@, ret)]}})

\* the chunk of ret bytes read at offset rx_ of the body is in buf
Received(L, body, ret) ==
    [CountRead(L) EXCEPT
       !.rx = @ + ret,
       !.split = @ \/ CutsToken(body, L.rx + ret, L.boundary)
                   \/ CutsToken(body, L.rx + ret, Str_CRLFCRLF)]

RecvIteration(L, body, query, ret, env, print_ok) ==
    IF ret <= 0
    THEN FailWith([CountRead(L) EXCEPT !.fail_ret = Failure(ret)],
                  RecvErrorMessage(ret, L.remaining), print_ok)
    ELSE The({The({The({EndOfPass(rL, r.next, ret, print_ok) : rL \in {r.L}}) :
                   r \in {ProcessChunk(L1, b, ret, query, env)}}) :
              L1 \in {Received(L, body, ret)},
              b \in {SubSeq(body, L.rx + 1, L.rx + ret) \o <<NUL>>}})

upload_recv ==
    /\ pc = "recv"
    /\ \E ret \in httpd_req_recv(RecvRequest(remaining), content_len - rx),
          env \in IF filename.ptr = "NULL" THEN Envs ELSE {EnvAllOk},
          print_ok \in BOOLEAN :
           \E L \in {Cur} :
           \E n \in {RecvIteration(L, req_body, url_query, ret, env,
                                   print_ok)} : Assign(n)

upload_drain ==
    /\ pc = "drain"
    /\ \E read_now \in httpd_req_recv(DrainRequest(remaining), content_len - rx),
          print_ok \in BOOLEAN :
           \E L \in {Cur} :
           \E n \in {DrainIteration(L, content_len, read_now, print_ok)} :
               Assign(n)

\* --------------------------------------------------- upload scenarios
\* the bytes a payload is made of
PayloadBytes == {"a", LF, NUL}
Payloads == UNION {[1..n -> PayloadBytes] : n \in 0..MaxPayload}

\* Content-Type: multipart/form-data; boundary=X
BoundaryValue == <<"X">>
CtGood == Header(Str_Multipart \o <<";", " ">> \o Str_BoundaryEq \o BoundaryValue)
CtNoBoundary == Header(Str_Multipart)
CtLongBoundary ==
    Header(Str_Multipart \o <<";", " ">> \o Str_BoundaryEq
           \o [i \in 1..(BOUNDARY_BUF_SIZE - 2) |-> "X"])
CtTooLong == Header([i \in 1..CONTENT_TYPE_BUF_SIZE |-> "m"])
BadContentTypes == {NoHeader, CtNoBoundary, CtLongBoundary, CtTooLong}

\* the part headers a client sends, and four that do not parse
HdrGood == Str_ContentDisposition \o <<" ">> \o Str_FilenameEq \o <<"a", "\"">>
HdrNoDisposition == <<"x">>
HdrNoFilename == Str_ContentDisposition \o <<" ", "x">>
HdrNoClosingQuote == Str_ContentDisposition \o <<" ">> \o Str_FilenameEq \o <<"a">>
HdrEmptyName == Str_ContentDisposition \o <<" ">> \o Str_FilenameEq \o <<"\"">>
BadPartHeaders == {HdrNoDisposition, HdrNoFilename, HdrNoClosingQuote, HdrEmptyName}

\* the line end in front of the closing boundary
Closings == {<<CR, LF>>, <<LF>>}

\* a multipart body with one file part
Body(hdr, p, closing) ==
    Str_Dashes \o BoundaryValue \o <<CR, LF>> \o hdr \o Str_CRLFCRLF \o p
    \o closing \o Str_Dashes \o BoundaryValue \o Str_Dashes \o <<CR, LF>>

Overwrite(v) == <<[key |-> "overwrite", val |-> v]>>
Str_true == <<"t", "r", "u", "e">>
Queries ==
    {<<>>, Overwrite(Str_true), Overwrite(<<"T", "R", "U", "E">>),
     Overwrite(<<"f", "a", "l", "s", "e">>)}

\* the card: the destination of the file "a" is free, or holds old bytes
DestPath == build_filepath(FILE_PATH_MAX, MOUNT_POINT, <<"a">>)
OldBytes == <<"o", "l", "d">>
Stores_free == [p \in {DestPath} |-> NoFile]
Stores_old == [p \in {DestPath} |-> File(OldBytes)]
Stores == {Stores_free, Stores_old}

Scenario(body, p, ct, q, st) ==
    [body |-> body, payload |-> p, ct |-> ct, query |-> q, store |-> st]

UploadScenarios ==
    {Scenario(Body(HdrGood, p, c), p, CtGood, <<>>, Stores_free) :
         p \in Payloads, c \in Closings}
    \cup {Scenario(Body(HdrGood, p, c), p, CtGood, Overwrite(Str_true), Stores_old) :
         p \in Payloads, c \in Closings}
    \cup {Scenario(Body(HdrGood, <<"a">>, <<CR, LF>>), <<"a">>, CtGood, q, st) :
         q \in Queries, st \in Stores}
    \cup {Scenario(Body(h, <<"a">>, <<CR, LF>>), <<"a">>, CtGood, <<>>, st) :
         h \in BadPartHeaders, st \in Stores}
    \cup {Scenario(Body(HdrGood, <<"a">>, <<CR, LF>>), <<"a">>, ct, <<>>, st) :
         ct \in BadContentTypes, st \in Stores}
    \cup {Scenario(<<>>, <<>>, CtGood, <<>>, st) : st \in Stores}

UploadStart(sc) ==
        /\ req_body = sc.body /\ content_len = Len(sc.body)
        /\ content_type = sc.ct /\ url_query = sc.query
        /\ storage = sc.store /\ storage0 = sc.store /\ payload = sc.payload
        /\ pc = "start" /\ remaining = 0 /\ buf = "NULL"
        /\ filename = NullStr /\ filepath = <<>> /\ fd = "NULL"
        /\ file_data_started = FALSE /\ boundary = <<>>
        /\ root_json = JsonNull /\ resp_status = "200 OK"
        /\ response = NoResponse /\ retval = "NULL" /\ rx = 0
        /\ recv_called = FALSE /\ late_reads = 0 /\ written = <<>> /\ split = FALSE
        /\ buf_allocs = 0 /\ buf_frees = 0 /\ name_allocs = 0
        /\ name_frees = 0 /\ fopen_calls = 0 /\ fclose_calls = 0
        /\ checks = 0 /\ parsed = FALSE /\ fail_ret = NoFailure /\ over_ask = FALSE
        /\ env_fail = FALSE

\* no upload request is being served
UploadIdle == UploadStart(Scenario(<<>>, <<>>, NoHeader, <<>>, Stores_free))

UploadNext == upload_entry \/ upload_recv \/ upload_drain

\* ------------------------------------------------ send_message_response
Str_MESSAGE_TITLE ==
    <<"%", "%", "M", "E", "S", "S", "A", "G", "E", "_", "T", "I", "T", "L",
      "E", "%", "%">>
Str_MESSAGE_CLASS ==
    <<"%", "%", "M", "E", "S", "S", "A", "G", "E", "_", "C", "L", "A", "S",
      "S", "%", "%">>
Str_MESSAGE_TEXT ==
    <<"%", "%", "M", "E", "S", "S", "A", "G", "E", "_", "T", "E", "X", "T",
      "%", "%">>

\* const char *placeholders[]
placeholders == <<Str_MESSAGE_TITLE, Str_MESSAGE_CLASS, Str_MESSAGE_TEXT>>
num_placeholders == Len(placeholders)

\* the state of one render as a record
CurT ==
    [tpc |-> tpc, template_ptr |-> template_ptr, ph_i |-> ph_i, sent |-> sent,
     msg_ret |-> msg_ret, file_list_html |-> file_list_html, spans |-> spans,
     send_failed |-> send_failed, late_sends |-> late_sends,
     list_frees |-> list_frees]

AssignT(n) ==
    /\ tpc' = n.tpc /\ template_ptr' = n.template_ptr /\ ph_i' = n.ph_i
    /\ sent' = n.sent /\ msg_ret' = n.msg_ret
    /\ file_list_html' = n.file_list_html /\ spans' = n.spans
    /\ send_failed' = n.send_failed /\ late_sends' = n.late_sends
    /\ list_frees' = n.list_frees
    /\ UNCHANGED <<template, values>>
    /\ UNCHANGED <<uploadVars, pathVars, taskVars, lateVars>>

\* httpd_resp_send_chunk(req, chunk, len): the chunk goes out, or the call fails
httpd_resp_send_chunk(T, chunk, ok) ==
    LET T0 == [T EXCEPT !.late_sends = IF T.send_failed THEN @ + 1 ELSE @]
    IN IF ok THEN [T0 EXCEPT !.sent = Append(@, chunk)]
       ELSE [T0 EXCEPT !.send_failed = TRUE]

\* the helper without its length test
httpd_send_template_chunk_SendsEmpty(T, chunk, ok) ==
    httpd_resp_send_chunk(T, chunk, ok)

\* httpd_send_template_chunk: a chunk of length 0 is not sent
httpd_send_template_chunk(T, chunk, ok) ==
    IF Len(chunk) > 0 THEN httpd_resp_send_chunk(T, chunk, ok) ELSE T

\* httpd_send_template_chunk(req, p, q - p) for the bytes [from, to) of doc
SendTemplateBytes(T, doc, from, to, ok) ==
    LET a == httpd_send_template_chunk(T, SubSeq(doc, from, to - 1), ok)
    IN IF to > from /\ ~a.send_failed
       THEN [a EXCEPT !.spans = Append(@, <<from, to>>)]
       ELSE a

\* a failed emission that does not end the handler
ReturnFail_Continues(T) == T

\* return ESP_FAIL;
ReturnFail(T) == [T EXCEPT !.msg_ret = "ESP_FAIL", !.tpc = "done"]

\* the cursor left on the placeholder
CursorAfter_KeepsToken(found_at, placeholder) == found_at

\* the cursor put back to the start of the document
CursorAfter_Rewinds(found_at, placeholder) == 1

\* the cursor behind the placeholder found at found_at
CursorAfter(found_at, placeholder) == found_at + Len(placeholder)

\* the pass of the for loop for placeholders[i]; doc is [start, end)
PlaceholderPass(T, doc, vals, ok1, ok2) ==
    LET ph == placeholders[T.ph_i + 1]
        template_end_ptr == Len(doc) + 1
        found_at == StrStr(doc, T.template_ptr, ph)
    IN IF found_at # 0 /\ found_at < template_end_ptr
       THEN LET a == SendTemplateBytes(T, doc, T.template_ptr, found_at, ok1)
                b == IF a.send_failed THEN a
                     ELSE httpd_send_template_chunk(a, vals[T.ph_i + 1], ok2)
            IN IF b.send_failed THEN ReturnFail(b)
               ELSE [b EXCEPT !.template_ptr = CursorAfter(found_at, ph),
                              !.ph_i = @ + 1]
       ELSE [T EXCEPT !.ph_i = @ + 1]

\* after the loop: the rest of the document and the terminating empty chunk
TemplateTail(T, doc, ok1, ok2) ==
    LET template_end_ptr == Len(doc) + 1
        a == IF T.template_ptr < template_end_ptr
             THEN SendTemplateBytes(T, doc, T.template_ptr, template_end_ptr,
                                    ok1)
             ELSE T
        b == IF a.send_failed THEN a
             ELSE httpd_resp_send_chunk(a, <<>>, ok2)
    IN IF b.send_failed THEN ReturnFail(b)
       ELSE [b EXCEPT !.msg_ret = "ESP_OK", !.tpc = "done"]

msg_placeholder ==
    /\ tpc = "loop" /\ ph_i < num_placeholders
    /\ \E ok1 \in BOOLEAN, ok2 \in BOOLEAN :
           AssignT(PlaceholderPass(CurT, template, values, ok1, ok2))

msg_tail ==
    /\ tpc = "loop" /\ ~(ph_i < num_placeholders)
    /\ \E ok1 \in BOOLEAN, ok2 \in BOOLEAN :
           AssignT(TemplateTail(CurT, template, ok1, ok2))

\* ------------------------------ list_get_handler: the template emission
Str_FILE_LIST_ROWS ==
    <<"%", "%", "F", "I", "L", "E", "_", "L", "I", "S", "T", "_", "R", "O",
      "W", "S", "%", "%">>

\* free(file_list_html)
FreeList(T) ==
    [T EXCEPT !.file_list_html = "freed", !.list_frees = @ + 1]

\* fail_list_handler: if (file_list_html) free(file_list_html); return ESP_FAIL
fail_list_handler(T) ==
    ReturnFail(IF T.file_list_html # "NULL" THEN FreeList(T) ELSE T)

\* the placeholder is searched from the start of list.html; rows is the
\* listing, file_list_len bytes
ListPlaceholder(T, doc, rows, ok1, ok2) ==
    LET template_end_ptr == Len(doc) + 1
        placeholder_found_at == StrStr(doc, T.template_ptr, Str_FILE_LIST_ROWS)
    IN IF placeholder_found_at # 0 /\ placeholder_found_at < template_end_ptr
       THEN LET a == SendTemplateBytes(T, doc, T.template_ptr,
                                       placeholder_found_at, ok1)
                b == IF a.send_failed THEN a
                     ELSE httpd_send_template_chunk(a, rows, ok2)
            IN IF b.send_failed THEN fail_list_handler(b)
               ELSE [b EXCEPT !.template_ptr =
                                  placeholder_found_at + Len(Str_FILE_LIST_ROWS),
                              !.tpc = "list_tail"]
       ELSE [T EXCEPT !.tpc = "list_tail"]

\* the rest of list.html, the terminating empty chunk, free and return
ListTail(T, doc, ok1, ok2) ==
    LET template_end_ptr == Len(doc) + 1
        a == IF T.template_ptr < template_end_ptr
             THEN SendTemplateBytes(T, doc, T.template_ptr, template_end_ptr,
                                    ok1)
             ELSE T
        b == IF a.send_failed THEN a
             ELSE httpd_resp_send_chunk(a, <<>>, ok2)
    IN IF b.send_failed THEN fail_list_handler(b)
       ELSE [FreeList(b) EXCEPT !.msg_ret = "ESP_OK", !.tpc = "done"]

list_placeholder ==
    /\ tpc = "list"
    /\ \E ok1 \in BOOLEAN, ok2 \in BOOLEAN :
           AssignT(ListPlaceholder(CurT, template, values[1], ok1, ok2))

list_tail ==
    /\ tpc = "list_tail"
    /\ \E ok1 \in BOOLEAN, ok2 \in BOOLEAN :
           AssignT(ListTail(CurT, template, ok1, ok2))

\* ------------------------------------------------- template scenarios
\* a document is a run of pieces: placeholders and plain bytes
Pieces ==
    {Str_MESSAGE_TITLE, Str_MESSAGE_CLASS, Str_MESSAGE_TEXT, <<"a">>, <<"%">>}

RECURSIVE Flatten(_)
Flatten(ps) == IF ps = <<>> THEN <<>> ELSE Head(ps) \o Flatten(Tail(ps))

\* the embedded text files end with a NUL that lies inside [start, end)
Templates ==
    {Flatten(ps) \o <<NUL>> : ps \in UNION {[1..n -> Pieces] : n \in 0..MaxPieces}}

ValueSets ==
    {<<t, c, x>> : t \in {<<>>, <<"t">>}, c \in {<<"c">>},
                   x \in {<<"x">>, Str_MESSAGE_TITLE}}

TemplateStart(doc, vals) ==
    /\ template = doc /\ values = vals
    /\ tpc = "loop" /\ template_ptr = 1 /\ ph_i = 0 /\ sent = <<>>
    /\ msg_ret = "NULL" /\ file_list_html = "NULL" /\ spans = <<>>
    /\ send_failed = FALSE /\ late_sends = 0 /\ list_frees = 0

\* no page is being rendered
TemplateIdle ==
    /\ template = <<NUL>> /\ values = <<<<>>, <<>>, <<>>>>
    /\ tpc = "done" /\ template_ptr = 1 /\ ph_i = 0 /\ sent = <<>>
    /\ msg_ret = "NULL" /\ file_list_html = "NULL" /\ spans = <<>>
    /\ send_failed = FALSE /\ late_sends = 0 /\ list_frees = 0

TemplateNext == msg_placeholder \/ msg_tail

\* list.html: a run of pieces, and its NUL
ListPieces == {Str_FILE_LIST_ROWS, <<"a">>, <<"%">>}

ListTemplates ==
    {Flatten(ps) \o <<NUL>> :
         ps \in UNION {[1..n -> ListPieces] : n \in 0..MaxPieces}}

\* the listing built from the directory: no file, a row, a name that holds
\* the placeholder
FileLists == {<<>>, <<"r">>, Str_FILE_LIST_ROWS}

\* list_get_handler has built the listing and comes to the template
ListStart(doc, rows) ==
    /\ template = doc /\ values = <<rows>>
    /\ tpc = "list" /\ template_ptr = 1 /\ ph_i = 0 /\ sent = <<>>
    /\ msg_ret = "NULL" /\ file_list_html = "live" /\ spans = <<>>
    /\ send_failed = FALSE /\ late_sends = 0 /\ list_frees = 0

RenderNext == msg_placeholder \/ msg_tail \/ list_placeholder \/ list_tail

\* ------------------------------------------- build_filepath, step by step
Str_unknown_filename ==
    <<"u", "n", "k", "n", "o", "w", "n", "_", "f", "i", "l", "e", "n", "a",
      "m", "e">>

\* strstr(dst, "..")
FindDots(d) == StrStr(d \o <<NUL>>, 1, <<".", ".">>)

\* a pass that leaves the buffer as it is
ReplaceDots_Nothing(d, p) == d

\* *p = '_'; *(p + 1) = '_';
ReplaceDots(d, p) == [d EXCEPT ![p] = "_", ![p + 1] = "_"]

\* snprintf into dst; a NULL name takes the early return
bf_snprintf ==
    /\ bpc = "call"
    /\ IF path2.ptr = "NULL"
       THEN /\ dst' = SnprintfCat(FILE_PATH_MAX, MOUNT_POINT \o <<"/">>,
                                  Str_unknown_filename).str
            /\ bpc' = "done"
       ELSE /\ dst' = SnprintfCat(FILE_PATH_MAX, MOUNT_POINT \o <<"/">>,
                                  path2.str).str
            /\ bpc' = "loop"
    /\ UNCHANGED <<path2, replaced>>
    /\ UNCHANGED <<uploadVars, tmplVars, taskVars, lateVars>>

\* one pass of while ((p = strstr(dst, "..")) != NULL)
bf_replace ==
    /\ bpc = "loop" /\ FindDots(dst) # 0
    /\ replaced < Len(dst)
    /\ dst' = ReplaceDots(dst, FindDots(dst))
    /\ replaced' = replaced + 1
    /\ UNCHANGED <<path2, bpc>>
    /\ UNCHANGED <<uploadVars, tmplVars, taskVars, lateVars>>

\* strstr finds nothing: the loop ends and the function returns
bf_return ==
    /\ bpc = "loop" /\ FindDots(dst) = 0
    /\ bpc' = "done"
    /\ UNCHANGED <<path2, dst, replaced>>
    /\ UNCHANGED <<uploadVars, tmplVars, taskVars, lateVars>>

PathNext == bf_snprintf \/ bf_replace \/ bf_return

\* the names the handlers pass: strings over dots, slashes and a letter
NameBytes == {".", "/", "a"}
Str_traversal ==
    <<".", ".", "/", ".", ".", "/", "e", "t", "c", "/", "p", "a", "s", "s",
      "w", "d">>
Names == UNION {[1..n -> NameBytes] : n \in 0..MaxName} \cup {Str_traversal}

PathStart(name) ==
    /\ path2 = name /\ dst = <<>> /\ bpc = "call" /\ replaced = 0

\* build_filepath is not running
PathIdle == path2 = NullStr /\ dst = <<>> /\ bpc = "done" /\ replaced = 0

\* ------------------------------------------------- the shared task state
\* the execution contexts: ads1115_log_task, the button callback, the HTTP
\* server task that runs one handler at a time
Ctx == {"log", "btn", "http"}

NUM_CHANNELS == 8

\* the state of the tasks as one record
CurK ==
    [pc |-> ctx_pc, mutex |-> mutex, logging_active |-> logging_active,
     last_voltages |-> last_voltages, path |-> g_current_log_filepath,
     log_file |-> log_file, status |-> status, arg |-> arg,
     final_values |-> final_values, http_req |-> http_req,
     clf_ptr |-> clf_ptr, clf_body |-> clf_body, led |-> led]

AssignK(n) ==
    /\ ctx_pc' = n.pc /\ mutex' = n.mutex
    /\ logging_active' = n.logging_active
    /\ last_voltages' = n.last_voltages
    /\ g_current_log_filepath' = n.path /\ log_file' = n.log_file
    /\ status' = n.status /\ arg' = n.arg
    /\ final_values' = n.final_values /\ http_req' = n.http_req
    /\ clf_ptr' = n.clf_ptr /\ clf_body' = n.clf_body /\ led' = n.led
    /\ UNCHANGED g_log_file_path_mutex
    /\ UNCHANGED <<uploadVars, tmplVars, pathVars, lateVars>>

\* xSemaphoreTake(m, ...) == pdTRUE: the mutex was free and is now held by c
TakeMutex(K, m, c, label) ==
    [K EXCEPT !.mutex[m] = c, !.pc[c] = label]

\* a give that leaves the mutex with its holder
GiveMutex_Forgets(K, m) == K

\* xSemaphoreGive(m)
GiveMutex(K, m) == [K EXCEPT !.mutex[m] = "free"]

\* a bounded wait that never expires
TimedOut_Never(mx, m) == FALSE

\* a bounded wait expires: the mutex is held by another context all along
TimedOut(mx, m) == mx[m] # "free"

Goto(K, c, label) == [K EXCEPT !.pc[c] = label]

\* the request is answered and the HTTP server task is free again
HttpDone(K) ==
    [K EXCEPT !.pc["http"] = "h_idle", !.http_req = "none",
              !.clf_ptr = "none", !.status["http"] = FALSE,
              !.arg["http"] = FALSE]

\* ---- is_logging_enabled, called by the three contexts
\* where the caller goes on with the value returned
AfterIsLoggingEnabled(K, c) ==
    CASE c = "log" -> Goto(K, c, "l_branch")
      [] c = "btn" ->
           [K EXCEPT !.arg[c] = ~K.status[c], !.pc[c] = "sla_take"]
      [] OTHER ->
           IF K.http_req = "toggle_logging"
           THEN [K EXCEPT !.arg[c] = ~K.status[c], !.pc[c] = "sla_take"]
           ELSE HttpDone(K)

\* xSemaphoreTake(logging_mutex, portMAX_DELAY): waits until the mutex is free
is_logging_enabled_take(c) ==
    /\ ctx_pc[c] = "ile_take" /\ mutex["logging"] = "free"
    /\ \E K \in {CurK} : AssignK(TakeMutex(K, "logging", c, "ile_cs"))

\* status = logging_active; xSemaphoreGive; return status
is_logging_enabled_cs(c) ==
    /\ ctx_pc[c] = "ile_cs"
    /\ \E K \in {CurK} :
       \E K1 \in {GiveMutex([K EXCEPT !.status[c] = K.logging_active],
                            "logging")} :
           AssignK(AfterIsLoggingEnabled(K1, c))

\* ---- set_logging_active
AfterSetLoggingActive(K, c) ==
    IF c = "http" THEN HttpDone(K)
    ELSE [K EXCEPT !.pc[c] = "b_idle", !.status[c] = FALSE, !.arg[c] = FALSE]

set_logging_active_take(c) ==
    /\ ctx_pc[c] = "sla_take" /\ mutex["logging"] = "free"
    /\ \E K \in {CurK} : AssignK(TakeMutex(K, "logging", c, "sla_cs"))

\* logging_active = active; xSemaphoreGive
set_logging_active_cs(c) ==
    /\ ctx_pc[c] = "sla_cs"
    /\ \E K \in {CurK} :
       \E K1 \in {GiveMutex([K EXCEPT !.logging_active = K.arg[c]],
                            "logging")} :
           AssignK(AfterSetLoggingActive(K1, c))

\* ---- ads1115_log_task
\* the samples of one cycle: all channels read v
Samples == {[i \in 1..NUM_CHANNELS |-> v] : v \in {1, 2}}

\* the eight channels are read; a failed read restarts the cycle
log_sample ==
    /\ ctx_pc["log"] = "l_loop"
    /\ \E K \in {CurK}, read_ok \in BOOLEAN, v \in Samples :
           AssignK(IF read_ok
                   THEN [K EXCEPT !.final_values = v, !.pc["log"] = "slv_take"]
                   ELSE K)

\* set_last_voltages: xSemaphoreTake(logging_mutex, pdMS_TO_TICKS(10))
set_last_voltages_take ==
    /\ ctx_pc["log"] = "slv_take"
    /\ \E K \in {CurK} :
           \/ /\ K.mutex["logging"] = "free"
              /\ AssignK(TakeMutex(K, "logging", "log", "slv_cs"))
           \/ /\ TimedOut(K.mutex, "logging")
              /\ AssignK(Goto(K, "log", "ile_take"))

\* memcpy(last_voltages, voltages, sizeof(last_voltages)); xSemaphoreGive
set_last_voltages_cs ==
    /\ ctx_pc["log"] = "slv_cs"
    /\ \E K \in {CurK} :
           AssignK(Goto(GiveMutex([K EXCEPT !.last_voltages = K.final_values],
                                  "logging"),
                        "log", "ile_take"))

\* if (is_logging_enabled()) ... else ...: open a log file, log a line, or
\* close the file
log_branch ==
    /\ ctx_pc["log"] = "l_branch"
    /\ \E K \in {CurK}, fopen_ok \in BOOLEAN :
           AssignK(IF K.status["log"]
                   THEN IF K.log_file = "NULL"
                        THEN IF fopen_ok
                             THEN [K EXCEPT !.log_file = "open",
                                            !.pc["log"] = "onl_take"]
                             ELSE Goto(K, "log", "l_loop")
                        ELSE Goto(K, "log", "l_loop")
                   ELSE IF K.log_file = "open"
                        THEN [K EXCEPT !.log_file = "closed",
                                       !.pc["log"] = "rst_take"]
                        ELSE Goto(K, "log", "l_loop"))

\* g_log_file_path_mutex && xSemaphoreTake(..., pdMS_TO_TICKS(100)) == pdTRUE
\* at label from: on to label cs, or past the update to label skip
PathMutexTake(K, c, cs, skip) ==
    IF g_log_file_path_mutex = "NULL" THEN {skip}
    ELSE IF K.mutex["path"] = "free" THEN {TakeMutex(K, "path", c, cs)}
    ELSE IF TimedOut(K.mutex, "path") THEN {skip}
    ELSE {}

\* open_next_log_file has returned the stream: ws2812_set_green()
OpenDone(K) == [K EXCEPT !.led = "green", !.pc["log"] = "l_loop"]

\* open_next_log_file: the new file is open, its name is to be published
open_next_log_file_take ==
    /\ ctx_pc["log"] = "onl_take"
    /\ \E K \in {CurK} :
       \E n \in PathMutexTake(K, "log", "onl_cs", OpenDone(K)) : AssignK(n)

\* strncpy(g_current_log_filepath, out_path, ...) is under way
open_next_log_file_copy ==
    /\ ctx_pc["log"] = "onl_cs"
    /\ \E K \in {CurK} :
           AssignK([K EXCEPT !.path = "partial", !.pc["log"] = "onl_give"])

\* the copy is complete and terminated; xSemaphoreGive
open_next_log_file_give ==
    /\ ctx_pc["log"] = "onl_give"
    /\ \E K \in {CurK} :
           AssignK(OpenDone(GiveMutex([K EXCEPT !.path = "log"], "path")))

\* logging was switched off: the name is reset to "N/A"; file = NULL;
\* ws2812_set_red()
ResetDone(K) ==
    [K EXCEPT !.log_file = "NULL", !.led = "red", !.pc["log"] = "l_loop"]

log_reset_take ==
    /\ ctx_pc["log"] = "rst_take"
    /\ \E K \in {CurK} :
       \E n \in PathMutexTake(K, "log", "rst_cs", ResetDone(K)) : AssignK(n)

log_reset_copy ==
    /\ ctx_pc["log"] = "rst_cs"
    /\ \E K \in {CurK} :
           AssignK([K EXCEPT !.path = "partial", !.pc["log"] = "rst_give"])

log_reset_give ==
    /\ ctx_pc["log"] = "rst_give"
    /\ \E K \in {CurK} :
           AssignK(ResetDone(GiveMutex([K EXCEPT !.path = "N/A"], "path")))

\* ---- button_toggle_cb
button_toggle_cb ==
    /\ ctx_pc["btn"] = "b_idle"
    /\ \E K \in {CurK} : AssignK(Goto(K, "btn", "ile_take"))

\* ---- the HTTP handlers that touch the shared state
Handlers ==
    {"log_status_get", "toggle_logging", "log_toggle", "adc", "log_status",
     "current_log_file"}

\* the server task takes a request and enters its handler
http_dispatch ==
    /\ ctx_pc["http"] = "h_idle"
    /\ \E K \in {CurK}, h \in Handlers, has_active \in BOOLEAN,
          active \in BOOLEAN :
           AssignK(
             CASE h \in {"log_status_get", "toggle_logging"} ->
                    [K EXCEPT !.http_req = h, !.pc["http"] = "ile_take"]
               [] h = "log_toggle" ->
                    IF has_active
                    THEN [K EXCEPT !.http_req = h, !.arg["http"] = active,
                                   !.pc["http"] = "sla_take"]
                    ELSE K
               [] h \in {"adc", "log_status"} ->
                    [K EXCEPT !.http_req = h, !.pc["http"] = "rd_take"]
               [] OTHER ->
                    [K EXCEPT !.http_req = h, !.pc["http"] = "clf_take"])

\* adc_handler, log_status_handler:
\* xSemaphoreTake(logging_mutex, pdMS_TO_TICKS(10))
http_read_take ==
    /\ ctx_pc["http"] = "rd_take"
    /\ \E K \in {CurK} :
           \/ /\ K.mutex["logging"] = "free"
              /\ AssignK(TakeMutex(K, "logging", "http", "rd_cs"))
           \/ /\ TimedOut(K.mutex, "logging")
              /\ AssignK(HttpDone(K))

\* the copy of last_voltages or of logging_active; xSemaphoreGive
http_read_cs ==
    /\ ctx_pc["http"] = "rd_cs"
    /\ \E K \in {CurK} : AssignK(HttpDone(GiveMutex(K, "logging")))

\* get_current_log_file_name: the mutex is missing, taken, or busy
get_current_log_file_name_take ==
    /\ ctx_pc["http"] = "clf_take"
    /\ \E K \in {CurK} :
       \E n \in PathMutexTake(
                   K, "http", "clf_cs",
                   [K EXCEPT !.clf_ptr =
                                 IF g_log_file_path_mutex = "NULL"
                                 THEN "N/A (Mutex Missing)"
                                 ELSE "N/A (Mutex Busy)",
                             !.pc["http"] = "clf_send"]) : AssignK(n)

\* current_file_path = g_current_log_filepath; xSemaphoreGive; return
get_current_log_file_name_cs ==
    /\ ctx_pc["http"] = "clf_cs"
    /\ \E K \in {CurK} :
           AssignK(Goto(GiveMutex([K EXCEPT !.clf_ptr = "g_current_log_filepath"],
                                  "path"),
                        "http", "clf_send"))

\* httpd_resp_sendstr(req, filename): the characters are read now
current_log_file_handler_send ==
    /\ ctx_pc["http"] = "clf_send"
    /\ \E K \in {CurK} :
           AssignK(HttpDone([K EXCEPT !.clf_body =
                                IF K.clf_ptr = "g_current_log_filepath"
                                THEN K.path ELSE K.clf_ptr]))

TaskNext ==
    \/ \E c \in Ctx : is_logging_enabled_take(c)
    \/ \E c \in Ctx : is_logging_enabled_cs(c)
    \/ \E c \in Ctx \ {"log"} : set_logging_active_take(c)
    \/ \E c \in Ctx \ {"log"} : set_logging_active_cs(c)
    \/ log_sample \/ set_last_voltages_take \/ set_last_voltages_cs
    \/ log_branch
    \/ open_next_log_file_take \/ open_next_log_file_copy
    \/ open_next_log_file_give
    \/ log_reset_take \/ log_reset_copy \/ log_reset_give
    \/ button_toggle_cb \/ http_dispatch
    \/ http_read_take \/ http_read_cs
    \/ get_current_log_file_name_take \/ get_current_log_file_name_cs
    \/ current_log_file_handler_send

\* app_main has run: the mutexes exist (the second one unless its creation
\* failed), the three contexts are at rest
TaskStart(active, pmx) ==
    /\ ctx_pc = [c \in Ctx |->
                   CASE c = "log" -> "l_loop" [] c = "btn" -> "b_idle"
                     [] OTHER -> "h_idle"]
    /\ mutex = [m \in {"logging", "path"} |-> "free"]
    /\ g_log_file_path_mutex = pmx
    /\ logging_active = active
    /\ last_voltages = [i \in 1..NUM_CHANNELS |-> 0]
    /\ g_current_log_filepath = "N/A"
    /\ log_file = "NULL"
    /\ status = [c \in Ctx |-> FALSE] /\ arg = [c \in Ctx |-> FALSE]
    /\ final_values = [i \in 1..NUM_CHANNELS |-> 0]
    /\ http_req = "none" /\ clf_ptr = "none" /\ clf_body = "none"
    /\ led = IF active THEN "green" ELSE "red"

\* the tasks are not looked at
TaskIdle == TaskStart(FALSE, "created")

\* ------------------------- the receive loop of upload_post_handler: sizes
\* what httpd_req_recv can return: the least, the most and nearly the most
\* bytes, the end of the connection, an error
RecvReturns(asked, outstanding) ==
    LET m == MIN(asked, outstanding)
    IN httpd_req_recv(asked, outstanding)
           \cap {HTTPD_SOCK_ERR_TIMEOUT, HTTPD_SOCK_ERR_FAIL, 0, 1, m - 1, m}

\* the bodies looked at: around one buffer, and up to MaxReads full reads
RecvLengths ==
    {1, 2, UPLOAD_BUFFER_SIZE - 2, UPLOAD_BUFFER_SIZE - 1, UPLOAD_BUFFER_SIZE,
     UPLOAD_BUFFER_SIZE + 1}
        \cup {k * (UPLOAD_BUFFER_SIZE - 1) + 1 : k \in 1..MaxReads}

CurS ==
    [recv_pc |-> recv_pc, recv_remaining |-> recv_remaining,
     recv_rx |-> recv_rx, recv_asked |-> recv_asked, recv_ret |-> recv_ret,
     buf_nul |-> buf_nul]

AssignS(n) ==
    /\ recv_pc' = n.recv_pc /\ recv_remaining' = n.recv_remaining
    /\ recv_rx' = n.recv_rx /\ recv_asked' = n.recv_asked
    /\ recv_ret' = n.recv_ret /\ buf_nul' = n.buf_nul
    /\ UNCHANGED recv_len
    /\ UNCHANGED <<uploadVars, tmplVars, pathVars, taskVars, nvsVars, rowVars>>
    /\ UNCHANGED <<nameVars, logfVars>>
    /\ UNCHANGED tailVars

\* what the handling of a chunk does to the loop: nothing, remaining = 0
\* (a boundary was found), or goto cleanup_and_send_json (an error, or the
\* conflict branch after its drain loop)
ChunkOutcomes == {"next", "ends", "cleanup"}

\* one pass of while (remaining > 0): the read, buf[ret] = '\0', the chunk,
\* remaining -= ret
RecvPass(S, asked, ret, how) ==
    LET S0 == [S EXCEPT !.recv_asked = asked, !.recv_ret = ret]
    IN IF ret <= 0 THEN [S0 EXCEPT !.recv_pc = "done"]
       ELSE IF how = "cleanup"
       THEN [S0 EXCEPT !.buf_nul = ret, !.recv_rx = @ + ret,
                       !.recv_pc = "done"]
       ELSE The({[S0 EXCEPT !.buf_nul = ret,
                            !.recv_rx = @ + ret,
                            !.recv_remaining = rem,
                            !.recv_pc = IF rem > 0 THEN "loop" ELSE "done"] :
                 rem \in {Consume(IF how = "ends" THEN 0
                                  ELSE S.recv_remaining, ret)}})

recv_pass ==
    /\ recv_pc = "loop" /\ recv_remaining > 0
    /\ \E asked \in {RecvRequest(recv_remaining)} :
       \E ret \in RecvReturns(asked, recv_len - recv_rx),
          how \in ChunkOutcomes :
       \E S \in {CurS} :
       \E n \in {RecvPass(S, asked, ret, how)} : AssignS(n)

RecvNext == recv_pass

\* int remaining = req->content_len; nothing is read yet
RecvStart(clen) ==
    /\ recv_pc = "loop" /\ recv_len = clen /\ recv_remaining = clen
    /\ recv_rx = 0 /\ recv_asked = 0 /\ recv_ret = 0 /\ buf_nul = -1

\* no receive loop is looked at
SizeIdle ==
    /\ recv_pc = "done" /\ recv_len = 0 /\ recv_remaining = 0
    /\ recv_rx = 0 /\ recv_asked = 0 /\ recv_ret = 0 /\ buf_nul = -1

\* ------------------------------------------------ settings.c: saving
\* channel_config_t: the scaling factor in thousandths, and the unit
ChannelConfig(factor, unit) == [scaling_factor |-> factor, unit |-> unit]

\* set_default_channel_configs: 1.0 and "V" for every channel
DefaultConfigs == [i \in 1..NUM_CHANNELS |-> ChannelConfig(1000, "V")]

\* arrays a caller hands over: the defaults, another value in every channel,
\* in the first channel only, in the last channel only
ConfigArrays ==
    {DefaultConfigs,
     [i \in 1..NUM_CHANNELS |-> ChannelConfig(2500, "bar")],
     [DefaultConfigs EXCEPT ![1] = ChannelConfig(2500, "bar")],
     [DefaultConfigs EXCEPT ![NUM_CHANNELS] = ChannelConfig(500, "A")]}

\* the argument: a pointer to an array, or NULL
NullConfigs == [ptr |-> "NULL", val |-> <<>>]
ConfigArgs == {[ptr |-> "live", val |-> a] : a \in ConfigArrays} \cup {NullConfigs}

\* the store holds no blob under the key
NoBlob == <<>>

\* what nvs_open, nvs_set_blob and nvs_commit can return
NvsOpenResults == {"ESP_OK", "ESP_ERR_NVS_NOT_INITIALIZED"}
NvsSetResults == {"ESP_OK", "ESP_ERR_NVS_NOT_ENOUGH_SPACE"}
NvsCommitResults == {"ESP_OK", "ESP_ERR_NVS_INVALID_HANDLE"}

\* the RAM copy written as soon as the blob is set
CopyToRam_BeforeCommit(ram, configs, err) == configs

\* if (err == ESP_OK) memcpy(channel_configs, configs, sizeof(...))
CopyToRam(ram, configs, err) == IF err = "ESP_OK" THEN configs ELSE ram

\* settings_save_channel_configs(configs) on the RAM copy ram and the stored
\* blob; e_open, e_set and e_commit are what the NVS calls return, and
\* kept says whether a blob that was set and not committed is in the store
SaveChannelConfigs(ram, blob, configs, e_open, e_set, e_commit, kept) ==
    IF configs.ptr = "NULL"
    THEN [channel_configs |-> ram, nvs_blob |-> blob,
          err |-> "ESP_ERR_INVALID_ARG", failed_at |-> "arg"]
    ELSE IF e_open # "ESP_OK"
    THEN [channel_configs |-> ram, nvs_blob |-> blob,
          err |-> e_open, failed_at |-> "open"]
    ELSE IF e_set # "ESP_OK"
    THEN [channel_configs |-> ram, nvs_blob |-> blob,
          err |-> e_set, failed_at |-> "set"]
    ELSE [channel_configs |-> CopyToRam(ram, configs.val, e_commit),
          nvs_blob |-> IF e_commit = "ESP_OK" \/ kept THEN configs.val
                       ELSE blob,
          err |-> e_commit,
          failed_at |-> IF e_commit = "ESP_OK" THEN "none" ELSE "commit"]

settings_save_channel_configs ==
    /\ save_calls < MaxSaves
    /\ \E configs \in ConfigArgs,
          open_err \in NvsOpenResults, set_err \in NvsSetResults,
          commit_err \in NvsCommitResults, kept \in BOOLEAN :
       \E r \in {SaveChannelConfigs(channel_configs, nvs_blob, configs,
                                    open_err, set_err, commit_err, kept)} :
           /\ channel_configs' = r.channel_configs
           /\ nvs_blob' = r.nvs_blob
           /\ save_calls' = save_calls + 1
           /\ save_configs' = configs
           /\ save_err' = r.err
           /\ save_failed_at' = r.failed_at
    /\ UNCHANGED <<uploadVars, tmplVars, pathVars, taskVars, sizeVars, rowVars>>
    /\ UNCHANGED <<nameVars, logfVars>>
    /\ UNCHANGED tailVars

SettingsNext == settings_save_channel_configs

\* after settings_init: the RAM copy is the stored blob, or the defaults
SettingsStart(blob) ==
    /\ channel_configs = IF blob = NoBlob THEN DefaultConfigs ELSE blob
    /\ nvs_blob = blob /\ save_calls = 0
    /\ save_configs = NullConfigs /\ save_err = "ESP_OK"
    /\ save_failed_at = "none"

\* the settings are not looked at
NvsIdle == SettingsStart(NoBlob)

\* --------------------------------- list_get_handler: reading the directory
Str_RowOpen ==
    <<"<", "t", "r", ">", "<", "t", "d", ">">>
Str_RowToDownload ==
    <<"<", "/", "t", "d", ">", "<", "t", "d", ">", "<", "a", " ", "h", "r",
      "e", "f", "=", "\"">>
Str_RowToDelete ==
    <<"\"", ">", "P", "r", "e", "u", "z", "m", "i", "<", "/", "a", ">", "<",
      "/", "t", "d", ">", "<", "t", "d", ">", "<", "a", " ", "h", "r", "e",
      "f", "=", "\"">>
Str_RowClose ==
    <<"\"", " ", "c", "l", "a", "s", "s", "=", "\"", "d", "e", "l", "e", "t",
      "e", "-", "l", "i", "n", "k", "\"", ">", "O", "b", "r", "i", "xC5",
      "xA1", "i", "<", "/", "a", ">", "<", "/", "t", "d", ">", "<", "/", "t",
      "r", ">">>
Str_DownloadUrl ==
    <<"/", "d", "o", "w", "n", "l", "o", "a", "d", "?", "f", "i", "l", "e",
      "=">>
Str_DeleteUrl ==
    <<"/", "d", "e", "l", "e", "t", "e", "?", "f", "i", "l", "e", "=">>

\* the byte of a file name as the URL encoding loop writes it
UrlEncodeByte(ch) ==
    CASE ch = " " -> <<"%", "2", "0">>
      [] ch = "(" -> <<"%", "2", "8">>
      [] ch = ")" -> <<"%", "2", "9">>
      [] ch = "&" -> <<"%", "2", "6">>
      [] ch = "=" -> <<"%", "3", "D">>
      [] ch = "?" -> <<"%", "3", "F">>
      [] ch = "/" -> <<"%", "2", "F">>
      [] OTHER -> <<ch>>

\* url_encoded_filename; the names looked at are far shorter than the buffer
RECURSIVE UrlEncode(_)
UrlEncode(name) ==
    IF name = <<>> THEN <<>>
    ELSE UrlEncodeByte(Head(name)) \o UrlEncode(Tail(name))

\* snprintf(dst, size, ...) of text: what is stored before the '\0'
Snprintf(size, text) ==
    IF Len(text) < size THEN text ELSE SubSeq(text, 1, size - 1)

\* the row of a file, as the format string spells it
RowText(d_name) ==
    LET enc == UrlEncode(d_name)
        download_url == Snprintf(URL_BUF_SIZE, Str_DownloadUrl \o enc)
        delete_url == Snprintf(URL_BUF_SIZE, Str_DeleteUrl \o enc)
    IN Str_RowOpen \o d_name \o Str_RowToDownload \o download_url
           \o Str_RowToDelete \o delete_url \o Str_RowClose

\* entry_html_len_estimate
RowEstimate(d_name) ==
    (Len(d_name) * 2 + 1) + Len(d_name) * 2 + ROW_ESTIMATE_FIXED

\* realloc that takes the old block away when it fails
ReallocFailed_LosesBlock(R) ==
    [R EXCEPT !.realloc_failed = TRUE, !.next = "break", !.list_block = 0,
              !.list_buf = <<>>, !.file_list_len = 0]

\* if (!temp) break;  file_list_html still points to the old block
ReallocFailed(R) == [R EXCEPT !.realloc_failed = TRUE, !.next = "break"]

\* file_list_html = temp; file_list_buffer_size = new_size;
Realloced(R, new_size) ==
    [R EXCEPT !.list_block = @ + 1, !.file_list_buffer_size = new_size]

\* the two snprintf branches: the row fits, or the buffer is filled up
WriteRow(R, d_name) ==
    LET avail == R.file_list_buffer_size - R.file_list_len
        row == RowText(d_name)
        written_len == Len(row)
        R1 == [R EXCEPT !.list_buf = @ \o Snprintf(avail, row),
                        !.rows_written = @ + 1]
    IN IF written_len > 0 /\ written_len < avail
       THEN [R1 EXCEPT !.file_list_len = @ + written_len]
       ELSE [R1 EXCEPT !.file_list_len = R.file_list_buffer_size - 1]

\* the body of the while loop for a directory entry
RowPass(R, entry, realloc_ok) ==
    IF entry.d_type # "DT_REG" THEN R
    ELSE LET est == RowEstimate(entry.d_name)
         IN IF R.file_list_len + est >= R.file_list_buffer_size
            THEN IF realloc_ok
                 THEN WriteRow(Realloced(R, R.file_list_buffer_size + est
                                                + REALLOC_SLACK),
                               entry.d_name)
                 ELSE ReallocFailed(R)
            ELSE WriteRow(R, entry.d_name)

CurR ==
    [file_list_len |-> file_list_len,
     file_list_buffer_size |-> file_list_buffer_size, list_buf |-> list_buf,
     list_block |-> list_block, realloc_failed |-> realloc_failed,
     rows_written |-> rows_written, next |-> "readdir"]

\* the fields of the handler the directory part writes; pcl is where it goes
\* on, and html is file_list_html
AssignR(n, pcl, entries, html) ==
    /\ list_pc' = pcl /\ dir_entries' = entries
    /\ file_list_len' = n.file_list_len
    /\ file_list_buffer_size' = n.file_list_buffer_size
    /\ list_buf' = n.list_buf /\ list_block' = n.list_block
    /\ realloc_failed' = n.realloc_failed
    /\ rows_written' = n.rows_written
    /\ file_list_html' = html
    /\ tpc' = IF pcl = "emit" THEN "list" ELSE tpc
    /\ values' = IF pcl = "emit"
                 THEN <<SubSeq(n.list_buf, 1, n.file_list_len)>>
                 ELSE values
    /\ UNCHANGED <<template, template_ptr, ph_i, sent, msg_ret, spans,
                   send_failed, late_sends, list_frees>>
    /\ UNCHANGED <<uploadVars, pathVars, taskVars, sizeVars, nvsVars, nameVars>>
    /\ UNCHANGED logfVars
    /\ UNCHANGED tailVars

\* opendir and malloc(2048): either fails into an error page
list_open ==
    /\ list_pc = "call"
    /\ \E dir_ok \in BOOLEAN, malloc_ok \in BOOLEAN :
       \E R \in {CurR} :
           IF dir_ok /\ malloc_ok
           THEN AssignR([R EXCEPT !.list_block = 1,
                                  !.file_list_buffer_size = LIST_BUFFER_SIZE],
                        "readdir", dir_entries, "live")
           ELSE AssignR(R, "message", dir_entries, "NULL")

\* one pass of while ((entry = readdir(dir)) != NULL), or the end of the loop
list_readdir ==
    /\ list_pc = "readdir"
    /\ \E realloc_ok \in BOOLEAN :
       \E R \in {CurR} :
           IF dir_entries = <<>>
           THEN AssignR(R, "emit", dir_entries, file_list_html)
           ELSE \E n \in {RowPass(R, Head(dir_entries), realloc_ok)} :
                    AssignR(n, IF n.next = "break" THEN "emit" ELSE "readdir",
                            Tail(dir_entries),
                            IF n.list_block = 0 THEN "NULL" ELSE file_list_html)

ListingNext == list_open \/ list_readdir \/ list_placeholder \/ list_tail

\* names of files: short, with bytes the URL encoding rewrites, long, and
\* one whose row is longer than the estimate
Name_short == <<"a", ".", "c", "s", "v">>
Name_special == <<"a", " ", "b", "&", "c">>
Name_long == [i \in 1..LongName |-> "n"]
Name_encoded == [i \in 1..EncodedName |-> "("]

DirEntry(d_name, d_type) == [d_name |-> d_name, d_type |-> d_type]

\* a directory: files of one name, one of them maybe replaced by a
\* subdirectory or by the file with the special name
Directories ==
    {[i \in 1..n |-> IF i = p THEN other ELSE DirEntry(name, "DT_REG")] :
         n \in 0..MaxFiles, name \in {Name_short, Name_long, Name_encoded},
         p \in {0, 1, MaxFiles \div 2},
         other \in {DirEntry(<<"d">>, "DT_DIR"),
                    DirEntry(Name_special, "DT_REG")}}

\* list.html: the placeholder alone, between text, and missing
ListingTemplates ==
    {Str_FILE_LIST_ROWS \o <<NUL>>,
     <<"a">> \o Str_FILE_LIST_ROWS \o <<"a", NUL>>,
     <<"a", NUL>>}

\* list_get_handler is entered
ListingStart(entries) ==
    /\ list_pc = "call" /\ dir_entries = entries /\ file_list_len = 0
    /\ file_list_buffer_size = 0 /\ list_buf = <<>> /\ list_block = 0
    /\ realloc_failed = FALSE /\ rows_written = 0

\* no directory is being read
RowIdle ==
    /\ list_pc = "emit" /\ dir_entries = <<>> /\ file_list_len = 0
    /\ file_list_buffer_size = 0 /\ list_buf = <<>> /\ list_block = 0
    /\ realloc_failed = FALSE /\ rows_written = 0

\* ----------------------- upload_post_handler: the file name and its path
\* the chunk that holds the part header with the file name
HeaderWith(name) ==
    Str_ContentDisposition \o <<" ">> \o Str_FilenameEq \o name
        \o <<"\"", CR, LF, NUL>>

\* a name of len bytes with ".." at dots (nowhere when dots is 0)
NameOf(len, dots) ==
    [i \in 1..len |->
        IF dots # 0 /\ i \in {dots, dots + 1} THEN "."
        ELSE IF i % 3 = 0 THEN "a" ELSE IF i % 3 = 1 THEN "b" ELSE "c"]

\* short names, and names around the limit
HeaderNames ==
    {NameOf(len, dots) :
         len \in (1..3) \cup ((MAX_FILENAME_LEN - 3)
                                 ..(MAX_FILENAME_LEN + MaxOver)),
         dots \in {0, 1, 2, MAX_FILENAME_LEN - 2, MAX_FILENAME_LEN - 1,
                   MAX_FILENAME_LEN, MAX_FILENAME_LEN + 1}}

\* the header is searched, the name is cut and copied to filename
extract_name ==
    /\ x_pc = "chunk"
    /\ \E name_ok \in BOOLEAN :
       \E r \in {ExtractFilename(HeaderWith(hdr_name))} :
           IF r.ok /\ name_ok
           THEN x_pc' = "named" /\ x_filename' = r.name
           ELSE x_pc' = "failed" /\ x_filename' = x_filename
    /\ UNCHANGED <<hdr_name, x_filepath>>
    /\ UNCHANGED <<uploadVars, tmplVars, pathVars, taskVars>>
    /\ UNCHANGED <<sizeVars, nvsVars, rowVars, logfVars>>
    /\ UNCHANGED tailVars

\* build_filepath(filepath, sizeof(filepath), MOUNT_POINT, filename)
build_upload_path ==
    /\ x_pc = "named"
    /\ x_pc' = "built"
    /\ x_filepath' = build_filepath(FILE_PATH_MAX, MOUNT_POINT, x_filename)
    /\ UNCHANGED <<hdr_name, x_filename>>
    /\ UNCHANGED <<uploadVars, tmplVars, pathVars, taskVars>>
    /\ UNCHANGED <<sizeVars, nvsVars, rowVars, logfVars>>
    /\ UNCHANGED tailVars

NameNext == extract_name \/ build_upload_path

\* the first chunk with the header of name is in buf
NameStart(name) ==
    /\ x_pc = "chunk" /\ hdr_name = name /\ x_filename = <<>>
    /\ x_filepath = <<>>

\* no file name is looked at
NameIdle ==
    /\ x_pc = "built" /\ hdr_name = <<>> /\ x_filename = <<>>
    /\ x_filepath = <<>>

\* ------------------------------------------------- open_next_log_file
\* FILE *test = fopen(out_path, "r") for log_i.csv: the name is free, or the
\* stream is closed and the loop goes on, to the return of NULL behind the
\* last name
NextAfterTest(i, exists) ==
    IF ~exists THEN [pc |-> "open", i |-> i, ret |-> 0]
    ELSE IF i + 1 <= MAX_LOG_INDEX THEN [pc |-> "test", i |-> i + 1, ret |-> 0]
    ELSE [pc |-> "done", i |-> i + 1, ret |-> -1]

onl_test ==
    /\ onl_pc = "test"
    /\ \E n \in {NextAfterTest(onl_i, onl_i \in card_logs)} :
           onl_pc' = n.pc /\ onl_i' = n.i /\ onl_ret' = n.ret
    /\ UNCHANGED <<card_logs, onl_name, onl_created, onl_truncated,
                   card_uploads>>
    /\ UNCHANGED <<uploadVars, tmplVars, pathVars, taskVars>>
    /\ UNCHANGED <<sizeVars, nvsVars, rowVars, nameVars>>
    /\ UNCHANGED tailVars

\* FILE *f = fopen(out_path, "w"): on success the header is written and the
\* name is published if the mutex exists and is taken within 100 ms
onl_open ==
    /\ onl_pc = "open"
    /\ onl_pc' = "done"
    /\ \E fopen_ok \in BOOLEAN, taken \in BOOLEAN :
           IF fopen_ok
           THEN /\ onl_ret' = onl_i
                /\ card_logs' = card_logs \cup {onl_i}
                /\ onl_created' = onl_created \cup ({onl_i} \ card_logs)
                /\ onl_truncated' = onl_truncated \cup ({onl_i} \cap card_logs)
                /\ onl_name' = IF taken THEN onl_i ELSE onl_name
           ELSE /\ onl_ret' = -1
                /\ UNCHANGED <<card_logs, onl_created, onl_truncated,
                               onl_name>>
    /\ UNCHANGED <<onl_i, card_uploads>>
    /\ UNCHANGED <<uploadVars, tmplVars, pathVars, taskVars>>
    /\ UNCHANGED <<sizeVars, nvsVars, rowVars, nameVars>>
    /\ UNCHANGED tailVars

\* the names a client uploads
UploadedLogs == {1, 2, 3}

\* upload_post_handler, in the HTTP server task, stores a file whose name is
\* that of a log file
upload_log_file ==
    /\ onl_pc # "done" /\ card_uploads < MaxUploads
    /\ \E n \in UploadedLogs \ card_logs :
           card_logs' = card_logs \cup {n}
    /\ card_uploads' = card_uploads + 1
    /\ UNCHANGED <<onl_pc, onl_i, onl_ret, onl_name, onl_created,
                   onl_truncated>>
    /\ UNCHANGED <<uploadVars, tmplVars, pathVars, taskVars>>
    /\ UNCHANGED <<sizeVars, nvsVars, rowVars, nameVars>>
    /\ UNCHANGED tailVars

LogFileNext == onl_test \/ onl_open \/ upload_log_file

\* the cards looked at: empty, the first names taken, a gap, all but the
\* last name taken, all names taken
CardLogs ==
    {{}, {1}, {1, 2}, {2}, {1, 3}, 1..(MAX_LOG_INDEX - 1), 1..MAX_LOG_INDEX}

\* ads1115_log_task calls open_next_log_file; name is what is published
LogFileStart(logs, name) ==
    /\ onl_pc = "test" /\ onl_i = 1 /\ card_logs = logs /\ onl_ret = 0
    /\ onl_name = name /\ onl_created = {} /\ onl_truncated = {}
    /\ card_uploads = 0

\* open_next_log_file is not looked at
LogFileIdle ==
    /\ onl_pc = "done" /\ onl_i = 1 /\ card_logs = {} /\ onl_ret = 0
    /\ onl_name = 0 /\ onl_created = {} /\ onl_truncated = {}
    /\ card_uploads = 0

\* ------------------------------ adc_handler against set_last_voltages
\* the two memcpy of sizeof(last_voltages) bytes are taken one element at a
\* time, so that a copy overlapped by the other one would show
Zeros == [i \in 1..NUM_CHANNELS |-> 0]

\* float voltages[NUM_CHANNELS] before anything is stored in it
Indeterminate == [i \in 1..NUM_CHANNELS |-> -1]

\* a take that succeeds whoever holds the mutex
xSemaphoreTake_NoExclusion(mx, m, c) ==
    [taken |-> TRUE, mutex |-> [mx EXCEPT ![m] = c]]

\* xSemaphoreTake(m, pdMS_TO_TICKS(10)) by c: pdTRUE when the mutex is free,
\* pdFALSE when another context holds it for the whole wait
xSemaphoreTake(mx, m, c) ==
    IF mx[m] = "free" THEN [taken |-> TRUE, mutex |-> [mx EXCEPT ![m] = c]]
    ELSE [taken |-> FALSE, mutex |-> mx]

\* memcpy has copied the elements 1..i and copies the next one
MemcpyStep(to, from, i) == [to EXCEPT ![i + 1] = from[i + 1]]

CurA ==
    [pc |-> ctx_pc, mutex |-> mutex, last_voltages |-> last_voltages,
     final_values |-> final_values, http_req |-> http_req,
     voltages |-> voltages, slv_i |-> slv_i, adc_i |-> adc_i,
     slv_calls |-> slv_calls, handed |-> handed, reported |-> reported]

AssignA(n) ==
    /\ ctx_pc' = n.pc /\ mutex' = n.mutex
    /\ last_voltages' = n.last_voltages /\ final_values' = n.final_values
    /\ http_req' = n.http_req /\ voltages' = n.voltages
    /\ slv_i' = n.slv_i /\ adc_i' = n.adc_i /\ slv_calls' = n.slv_calls
    /\ handed' = n.handed /\ reported' = n.reported
    /\ UNCHANGED <<g_log_file_path_mutex, logging_active,
                   g_current_log_filepath, log_file, status, arg, clf_ptr,
                   clf_body, led>>
    /\ UNCHANGED <<uploadVars, tmplVars, pathVars>>
    /\ UNCHANGED <<sizeVars, nvsVars, rowVars, nameVars, logfVars, delVars>>

\* ads1115_log_task has read the eight channels: set_last_voltages(v)
slv_call ==
    /\ ctx_pc["log"] = "l_loop" /\ slv_calls < MaxSets
    /\ \E A \in {CurA} :
       \E v \in {[i \in 1..NUM_CHANNELS |-> A.slv_calls + 1]} :
           AssignA([A EXCEPT !.final_values = v, !.handed = @ \cup {v},
                             !.slv_calls = @ + 1, !.pc["log"] = "slv_take"])

\* set_last_voltages: the take; the update is skipped when it times out
slv_take ==
    /\ ctx_pc["log"] = "slv_take"
    /\ \E A \in {CurA} :
       \E t \in {xSemaphoreTake(A.mutex, "logging", "log")} :
           AssignA(IF t.taken
                   THEN [A EXCEPT !.mutex = t.mutex, !.slv_i = 0,
                                  !.pc["log"] = "slv_copy"]
                   ELSE [A EXCEPT !.pc["log"] = "l_loop"])

\* memcpy(last_voltages, voltages, sizeof(last_voltages)), one element;
\* xSemaphoreGive after the last one
slv_memcpy ==
    /\ ctx_pc["log"] = "slv_copy"
    /\ \E A \in {CurA} :
       \E c \in {[A EXCEPT !.last_voltages =
                               MemcpyStep(@, A.final_values, A.slv_i),
                           !.slv_i = @ + 1]} :
           AssignA(IF c.slv_i < NUM_CHANNELS THEN c
                   ELSE [c EXCEPT !.mutex["logging"] = "free",
                                  !.pc["log"] = "l_loop"])

\* the HTTP server task enters adc_handler
adc_handler_enter ==
    /\ ctx_pc["http"] = "h_idle"
    /\ \E A \in {CurA} :
           AssignA([A EXCEPT !.http_req = "adc", !.voltages = Indeterminate,
                             !.pc["http"] = "rd_take"])

\* adc_handler: the take, or memset(voltages, 0, sizeof(voltages))
adc_handler_take ==
    /\ ctx_pc["http"] = "rd_take"
    /\ \E A \in {CurA} :
       \E t \in {xSemaphoreTake(A.mutex, "logging", "http")} :
           AssignA(IF t.taken
                   THEN [A EXCEPT !.mutex = t.mutex, !.adc_i = 0,
                                  !.pc["http"] = "rd_copy"]
                   ELSE [A EXCEPT !.voltages = Zeros,
                                  !.pc["http"] = "rd_send"])

\* memcpy(voltages, last_voltages, sizeof(last_voltages)), one element;
\* xSemaphoreGive after the last one
adc_handler_memcpy ==
    /\ ctx_pc["http"] = "rd_copy"
    /\ \E A \in {CurA} :
       \E c \in {[A EXCEPT !.voltages =
                               MemcpyStep(@, A.last_voltages, A.adc_i),
                           !.adc_i = @ + 1]} :
           AssignA(IF c.adc_i < NUM_CHANNELS THEN c
                   ELSE [c EXCEPT !.mutex["logging"] = "free",
                                  !.pc["http"] = "rd_send"])

\* the eight values go into the "kanali" array and the response is sent
adc_handler_send ==
    /\ ctx_pc["http"] = "rd_send"
    /\ \E A \in {CurA} :
           AssignA([A EXCEPT !.reported = A.voltages, !.http_req = "none",
                             !.pc["http"] = "h_idle"])

AdcNext ==
    \/ slv_call \/ slv_take \/ slv_memcpy
    \/ adc_handler_enter \/ adc_handler_take \/ adc_handler_memcpy
    \/ adc_handler_send

\* no /adc request and no call of set_last_voltages is looked at
AdcIdle ==
    /\ voltages = Zeros /\ slv_i = 0 /\ adc_i = 0 /\ slv_calls = 0
    /\ handed = {} /\ reported = <<>>

\* --------------------------------- delete_handler, delete_all_handler
CurD ==
    [pc |-> del_pc, card |-> del_card, dir |-> del_dir, json |-> del_json,
     status |-> del_status, op_status |-> op_status,
     query_buf |-> query_buf, deleted_count |-> deleted_count,
     failed_count |-> failed_count, response |-> del_response,
     ret |-> del_ret, json_creates |-> json_creates,
     json_deletes |-> json_deletes, query_frees |-> query_frees]

AssignD(n) ==
    /\ del_pc' = n.pc /\ del_card' = n.card /\ del_dir' = n.dir
    /\ del_json' = n.json /\ del_status' = n.status
    /\ op_status' = n.op_status /\ query_buf' = n.query_buf
    /\ deleted_count' = n.deleted_count /\ failed_count' = n.failed_count
    /\ del_response' = n.response /\ del_ret' = n.ret
    /\ json_creates' = n.json_creates /\ json_deletes' = n.json_deletes
    /\ query_frees' = n.query_frees
    /\ UNCHANGED <<del_req, del_query>>
    /\ UNCHANGED <<uploadVars, tmplVars, pathVars, taskVars>>
    /\ UNCHANGED <<sizeVars, nvsVars, rowVars, nameVars, logfVars, adcVars>>

\* root_json = cJSON_CreateObject(); a NULL is answered with a 500
CreateRootJson(D, create_ok, next) ==
    IF create_ok
    THEN [D EXCEPT !.json = "live", !.json_creates = @ + 1, !.pc = next]
    ELSE [D EXCEPT !.response = "500", !.ret = "ESP_FAIL", !.pc = "done"]

\* cJSON_AddStringToObject(root_json, "status", st) and the message
SetStatus(D, st) == [D EXCEPT !.status = st, !.pc = "send"]

\* cJSON_Delete(root_json): the pointer keeps its value
cJSON_Delete(D) ==
    [D EXCEPT !.json = "freed", !.json_deletes = @ + 1]

\* the query of /delete: its length, the buffer, the key "file", url_decode
DeleteQuery(D, query, malloc_ok, decode_ok) ==
    IF query = "none" THEN SetStatus(D, "error")
    ELSE IF ~malloc_ok THEN SetStatus(D, "error")
    ELSE The({IF query = "bad" \/ ~decode_ok THEN SetStatus(b, "error")
              ELSE [b EXCEPT !.pc = "unlink"] :
              b \in {[D EXCEPT !.query_buf = "live"]}})

\* unlink(filepath) of delete_handler
DeleteUnlink(D, name, unlink_ok) ==
    IF name \in D.card /\ unlink_ok
    THEN [SetStatus(D, "success") EXCEPT !.card = @ \ {name},
                                         !.op_status = "ESP_OK"]
    ELSE SetStatus(D, "error")

\* send_json_delete_response: the branch for a failed serialisation does
\* not return, the statements behind the if run on both branches; what the
\* second cJSON_Delete of the same object does to the heap is undefined:
\* the handler returns, or the heap check stops the program
SendDeleteResponse(D, print_ok, heap) ==
    The({The({[c EXCEPT !.ret = IF c.json_deletes > 1 /\ heap = "abort"
                                THEN "abort" ELSE c.op_status,
                        !.pc = "done"] :
              c \in {cJSON_Delete(
                        IF print_ok THEN [q EXCEPT !.response = "json"]
                        ELSE [cJSON_Delete(q) EXCEPT !.response = "500"])}}) :
         q \in {IF D.query_buf = "live"
                THEN [D EXCEPT !.query_buf = "freed", !.query_frees = @ + 1]
                ELSE D}})

\* send_json_delete_all_response: the failed serialisation returns ESP_FAIL
SendDeleteAllResponse(D, print_ok) ==
    IF print_ok
    THEN [cJSON_Delete(D) EXCEPT !.response = "json", !.ret = "ESP_OK",
                                 !.pc = "done"]
    ELSE [cJSON_Delete(D) EXCEPT !.response = "500", !.ret = "ESP_FAIL",
                                 !.pc = "done"]

\* the entries of the card in the order readdir returns them
Str_SystemVolumeInformation == "System Volume Information"
EntryOrder == <<"f1", "f2", "f3", Str_SystemVolumeInformation, "logs">>
IsRegular(name) == name # "logs"
InCard(card) == LET Keep(name) == name \in card IN SelectSeq(EntryOrder, Keep)

\* one pass of while ((entry = readdir(dir)) != NULL)
DeleteAllEntry(D, unlink_ok) ==
    LET name == Head(D.dir)
        d == [D EXCEPT !.dir = Tail(@)]
    IN IF ~IsRegular(name) \/ name = Str_SystemVolumeInformation THEN d
       ELSE IF unlink_ok
       THEN [d EXCEPT !.card = @ \ {name}, !.deleted_count = @ + 1]
       ELSE [d EXCEPT !.failed_count = @ + 1]

\* closedir and the status chosen from the two counts
DeleteAllStatus(D) ==
    SetStatus(D, IF D.deleted_count = 0 /\ D.failed_count = 0 THEN "info"
                 ELSE IF D.failed_count = 0 THEN "success"
                 ELSE IF D.deleted_count = 0 THEN "error"
                 ELSE "warning")

delete_handler_entry ==
    /\ del_req = "delete" /\ del_pc = "start"
    /\ \E D \in {CurD}, create_ok \in BOOLEAN :
           AssignD(CreateRootJson(D, create_ok, "query"))

delete_handler_query ==
    /\ del_req = "delete" /\ del_pc = "query"
    /\ \E D \in {CurD}, malloc_ok \in BOOLEAN, decode_ok \in BOOLEAN :
           AssignD(DeleteQuery(D, del_query, malloc_ok, decode_ok))

delete_handler_unlink ==
    /\ del_req = "delete" /\ del_pc = "unlink"
    /\ \E D \in {CurD}, unlink_ok \in BOOLEAN :
           AssignD(DeleteUnlink(D, del_query, unlink_ok))

delete_handler_send ==
    /\ del_req = "delete" /\ del_pc = "send"
    /\ \E D \in {CurD}, print_ok \in BOOLEAN, heap \in {"returns", "abort"} :
           AssignD(SendDeleteResponse(D, print_ok, heap))

\* cJSON_CreateObject and opendir(MOUNT_POINT)
delete_all_handler_entry ==
    /\ del_req = "delete_all" /\ del_pc = "start"
    /\ \E D \in {CurD}, create_ok \in BOOLEAN, opendir_ok \in BOOLEAN :
       \E c \in {CreateRootJson(D, create_ok, "readdir")} :
           AssignD(IF c.pc = "readdir" /\ ~opendir_ok
                   THEN SetStatus(c, "error")
                   ELSE c)

delete_all_handler_readdir ==
    /\ del_req = "delete_all" /\ del_pc = "readdir"
    /\ \E D \in {CurD}, unlink_ok \in BOOLEAN :
           AssignD(IF D.dir = <<>> THEN DeleteAllStatus(D)
                   ELSE DeleteAllEntry(D, unlink_ok))

delete_all_handler_send ==
    /\ del_req = "delete_all" /\ del_pc = "send"
    /\ \E D \in {CurD}, print_ok \in BOOLEAN :
           AssignD(SendDeleteAllResponse(D, print_ok))

DeleteNext ==
    \/ delete_handler_entry \/ delete_handler_query
    \/ delete_handler_unlink \/ delete_handler_send
    \/ delete_all_handler_entry \/ delete_all_handler_readdir
    \/ delete_all_handler_send

\* the cards looked at: MaxEntries entries at most
DelCards ==
    {c \in SUBSET {EntryOrder[i] : i \in 1..Len(EntryOrder)} :
         Cardinality(c) <= MaxEntries}
DelQueries == {"none", "bad", "f1", "f2"}

\* a request for /delete or /delete_all arrives
DeleteStart(req, query, card) ==
    /\ del_pc = "start" /\ del_req = req /\ del_query = query
    /\ del_card = card /\ del_dir = InCard(card) /\ del_json = "NULL"
    /\ del_status = "" /\ op_status = "ESP_FAIL" /\ query_buf = "NULL"
    /\ deleted_count = 0 /\ failed_count = 0 /\ del_response = "none"
    /\ del_ret = "NULL" /\ json_creates = 0 /\ json_deletes = 0
    /\ query_frees = 0

\* no delete request is looked at
DeleteIdle ==
    /\ del_pc = "done" /\ del_req = "none" /\ del_query = "none"
    /\ del_card = {} /\ del_dir = <<>> /\ del_json = "NULL"
    /\ del_status = "" /\ op_status = "ESP_FAIL" /\ query_buf = "NULL"
    /\ deleted_count = 0 /\ failed_count = 0 /\ del_response = "none"
    /\ del_ret = "NULL" /\ json_creates = 0 /\ json_deletes = 0
    /\ query_frees = 0

TailIdle == AdcIdle /\ DeleteIdle

LateIdle ==
    SizeIdle /\ NvsIdle /\ RowIdle /\ NameIdle /\ LogFileIdle /\ TailIdle

\* ---------------------------------------------------------- initial states
\* an upload request arrives; no page is being rendered
UploadInit ==
    \E sc \in UploadScenarios :
        UploadStart(sc) /\ TemplateIdle /\ PathIdle /\ TaskIdle /\ LateIdle

\* a message page is to be rendered; no upload request is being served
TemplateInit ==
    \E doc \in Templates, vals \in ValueSets :
        TemplateStart(doc, vals) /\ UploadIdle /\ PathIdle /\ TaskIdle /\ LateIdle

\* a page is to be rendered by send_message_response or by list_get_handler
RenderInit ==
    /\ \/ \E doc \in Templates, vals \in ValueSets : TemplateStart(doc, vals)
       \/ \E doc \in ListTemplates, rows \in FileLists : ListStart(doc, rows)
    /\ UploadIdle /\ PathIdle /\ TaskIdle /\ LateIdle

\* build_filepath is called with a file name, or with NULL
PathInit ==
    /\ \/ \E name \in Names : PathStart([ptr |-> "live", str |-> name])
       \/ PathStart(NullStr)
    /\ UploadIdle /\ TemplateIdle /\ TaskIdle /\ LateIdle

\* the device is up
TaskInit ==
    /\ \E active \in BOOLEAN, pmx \in {"NULL", "created"} :
           TaskStart(active, pmx)
    /\ UploadIdle /\ TemplateIdle /\ PathIdle /\ LateIdle

\* the receive loop starts on a body of one of the lengths
RecvInit ==
    /\ \E clen \in RecvLengths : RecvStart(clen)
    /\ UploadIdle /\ TemplateIdle /\ PathIdle /\ TaskIdle /\ NvsIdle /\ RowIdle
    /\ NameIdle /\ LogFileIdle
    /\ TailIdle

\* settings_init has run on an empty store or on a stored blob
SettingsInit ==
    /\ \E blob \in ConfigArrays \cup {NoBlob} : SettingsStart(blob)
    /\ UploadIdle /\ TemplateIdle /\ PathIdle /\ TaskIdle /\ SizeIdle /\ RowIdle
    /\ NameIdle /\ LogFileIdle
    /\ TailIdle

\* a request for /list arrives; the page is list.html
ListingInit ==
    /\ \E entries \in Directories, doc \in ListingTemplates :
           /\ ListingStart(entries)
           /\ template = doc /\ values = <<<<>>>>
           /\ tpc = "call" /\ template_ptr = 1 /\ ph_i = 0 /\ sent = <<>>
           /\ msg_ret = "NULL" /\ file_list_html = "NULL" /\ spans = <<>>
           /\ send_failed = FALSE /\ late_sends = 0 /\ list_frees = 0
    /\ UploadIdle /\ PathIdle /\ TaskIdle /\ SizeIdle /\ NvsIdle
    /\ NameIdle /\ LogFileIdle
    /\ TailIdle

\* the chunk with the part header has been read
NameInit ==
    /\ \E name \in HeaderNames : NameStart(name)
    /\ UploadIdle /\ TemplateIdle /\ PathIdle /\ TaskIdle
    /\ SizeIdle /\ NvsIdle /\ RowIdle /\ LogFileIdle
    /\ TailIdle

\* logging is on and no log file is open: the task looks for a name; the
\* name of the last log file was reset, or not
LogFileInit ==
    /\ \E logs \in CardLogs :
       \E name \in {0} \cup (logs \cap {1}) : LogFileStart(logs, name)
    /\ UploadIdle /\ TemplateIdle /\ PathIdle /\ TaskIdle
    /\ SizeIdle /\ NvsIdle /\ RowIdle /\ NameIdle
    /\ TailIdle

\* the logging task hands samples over while /adc requests are served
AdcInit ==
    /\ TaskStart(FALSE, "created")
    /\ voltages = Zeros /\ slv_i = 0 /\ adc_i = 0 /\ slv_calls = 0
    /\ handed = {} /\ reported = <<>>
    /\ UploadIdle /\ TemplateIdle /\ PathIdle
    /\ SizeIdle /\ NvsIdle /\ RowIdle /\ NameIdle /\ LogFileIdle
    /\ DeleteIdle

\* a request for /delete or for /delete_all arrives
DeleteInit ==
    /\ \E card \in DelCards :
          \/ \E query \in DelQueries : DeleteStart("delete", query, card)
          \/ DeleteStart("delete_all", "none", card)
    /\ UploadIdle /\ TemplateIdle /\ PathIdle /\ TaskIdle
    /\ SizeIdle /\ NvsIdle /\ RowIdle /\ NameIdle /\ LogFileIdle
    /\ AdcIdle

\* ------------------------------------------------------ specifications
\* one upload request served by upload_post_handler
SpecUpload == UploadInit /\ [][UploadNext]_vars

\* one page rendered by send_message_response
SpecTemplate == TemplateInit /\ [][TemplateNext]_vars

\* one template response: a message page or the file list page
SpecRender == RenderInit /\ [][RenderNext]_vars

\* the channel configurations are saved, MaxSaves times at most
SpecSettings == SettingsInit /\ [][SettingsNext]_vars

\* one request for /list served by list_get_handler
SpecListing == ListingInit /\ [][ListingNext]_vars

\* the file name of one upload is extracted and its path built
SpecName == NameInit /\ [][NameNext]_vars

\* one call of open_next_log_file while the HTTP server task runs
SpecLogFile == LogFileInit /\ [][LogFileNext]_vars

\* the receive loop of one upload request
SpecRecvSize == RecvInit /\ [][RecvNext]_vars

\* the receive loop when every httpd_req_recv returns: the handler runs on
SpecRecvLoop == RecvInit /\ [][RecvNext]_vars /\ WF_vars(recv_pass)

\* /adc requests served while ads1115_log_task calls set_last_voltages
SpecAdc == AdcInit /\ [][AdcNext]_vars

\* one request served by delete_handler or by delete_all_handler
SpecDelete == DeleteInit /\ [][DeleteNext]_vars

\* a step of ads1115_log_task that does not wait for a mutex without limit
LogTaskStep ==
    \/ is_logging_enabled_cs("log")
    \/ log_sample \/ set_last_voltages_take \/ set_last_voltages_cs
    \/ log_branch
    \/ open_next_log_file_take \/ open_next_log_file_copy
    \/ open_next_log_file_give
    \/ log_reset_take \/ log_reset_copy \/ log_reset_give

\* the context c, the button callback or the HTTP server task, leaves its
\* critical section
Gives(c) ==
    \/ is_logging_enabled_cs(c) \/ set_logging_active_cs(c)
    \/ (c = "http" /\ (http_read_cs \/ get_current_log_file_name_cs))

\* open_next_log_file returns a stream
FileOpened == log_branch /\ log_file' = "open"

\* the steps of the logging task and of the HTTP server task; the button is
\* not pressed
LoggingNext ==
    \/ \E c \in Ctx \ {"btn"} : is_logging_enabled_take(c)
    \/ \E c \in Ctx \ {"btn"} : is_logging_enabled_cs(c)
    \/ set_logging_active_take("http") \/ set_logging_active_cs("http")
    \/ log_sample \/ set_last_voltages_take \/ set_last_voltages_cs
    \/ log_branch
    \/ open_next_log_file_take \/ open_next_log_file_copy
    \/ open_next_log_file_give
    \/ log_reset_take \/ log_reset_copy \/ log_reset_give
    \/ http_dispatch
    \/ http_read_take \/ http_read_cs
    \/ get_current_log_file_name_take \/ get_current_log_file_name_cs
    \/ current_log_file_handler_send

\* the two tasks under a fair scheduler: the logging task always gets on,
\* its wait for logging_mutex ends when the mutex is free often enough, the
\* HTTP server task leaves its critical sections, and the ADC and the card
\* do not fail for ever
SpecTasksFair ==
    /\ TaskInit /\ [][LoggingNext]_vars
    /\ WF_vars(LogTaskStep)
    /\ SF_vars(is_logging_enabled_take("log"))
    /\ WF_vars(Gives("http"))
    /\ SF_vars(FileOpened)

\* one call of build_filepath; the function runs on once it is called
SpecPath == PathInit /\ [][PathNext]_vars /\ WF_vars(PathNext)

\* the logging task, the button and the HTTP server side by side
SpecTasks == TaskInit /\ [][TaskNext]_vars

\* ------------------------------------------------ vocabulary of the claims
Finished == pc = "done"

\* the request is a multipart upload of payload under the declared boundary
WellFormed ==
    /\ content_type = CtGood
    /\ \E c \in Closings : req_body = Body(HdrGood, payload, c)

\* the request carries overwrite=true (in any letter case)
RequestsOverwrite ==
    \E i \in 1..Len(url_query) :
        /\ url_query[i].key = "overwrite"
        /\ StrCaseEq(url_query[i].val, Str_true)

\* the destination existed before the request
ExistedBefore == storage0[DestPath].exists

\* no read of the main loop failed
Delivered == ~fail_ret.failed

\* C1: without a transport error and without a read that ends inside the
\* boundary token or the CRLFCRLF separator, the bytes written to the sink
\* are exactly the payload (stated for the requests that opened the sink)
C1_SinkHoldsPayload ==
    (Finished /\ WellFormed /\ Delivered /\ ~split /\ fopen_calls = 1)
        => written = payload

\* C2: the destination exists and overwrite is not requested: the result is
\* the conflict (409, status conflict, the filename), the sink is never
\* opened and the card is as before
C2_ConflictKeepsFile ==
    (checks > 0 /\ ExistedBefore /\ ~RequestsOverwrite)
        => /\ resp_status = "409 Conflict"
           /\ root_json = JsonObj("conflict", MsgConflict, filename.str)
           /\ fd = "NULL" /\ fopen_calls = 0
           /\ storage = storage0
           /\ written = <<>>
           /\ Finished /\ response.kind = "json"
                  => response = JsonResponse("409 Conflict", root_json)

C2_Witness ==
    /\ Finished /\ checks > 0 /\ ExistedBefore /\ ~RequestsOverwrite
    /\ response.kind = "json" /\ rx = content_len

\* C3: the destination exists and overwrite=true is given: after a completed
\* upload the stored file holds exactly the new payload
C3_OverwriteReplaces ==
    (Finished /\ WellFormed /\ ExistedBefore /\ RequestsOverwrite /\ Delivered
         /\ ~split /\ root_json.status = "success")
        => storage[DestPath] = File(payload)

C5_ResourcesReleased ==
    /\ buf_frees <= buf_allocs /\ buf_allocs <= 1
    /\ name_frees <= name_allocs /\ name_allocs <= 1
    /\ fclose_calls <= fopen_calls /\ fopen_calls <= 1
    /\ Finished => /\ fd # "open" /\ fclose_calls = fopen_calls
                   /\ buf # "live" /\ buf_frees = buf_allocs
                   /\ filename.ptr # "live" /\ name_frees = name_allocs

C5_Witness ==
    /\ Finished /\ fail_ret.failed /\ fopen_calls = 1 /\ fclose_calls = 1
    /\ buf_frees = 1 /\ name_frees = 1

\* C6 as claimed: the sink is open only while the separator has been found
C6_SinkOpenOnlyStreaming == fd = "open" => (pc = "recv" /\ file_data_started)

\* C6 as amended: the sink is open only at the head of the receive loop, after
\* the filename was extracted and the conflict check passed; nothing is
\* written before the separator is found; it is closed when the loop is left
C6_SinkOpenAfterResolve ==
    /\ fd = "open" => /\ pc = "recv" /\ filename.ptr = "live" /\ checks = 1
                      /\ root_json.null
    /\ ~file_data_started => written = <<>>
    /\ pc \in {"drain", "done"} => fd # "open"

C6_Witness == fd = "open" /\ ~file_data_started /\ pc = "recv" /\ rx > 0

\* C7: no usable boundary in Content-Type: the upload is rejected with an
\* error, httpd_req_recv is never called and no file is opened
C7_NoBoundaryNoRead ==
    (content_type \in BadContentTypes)
        => /\ ~recv_called /\ rx = 0
           /\ fopen_calls = 0 /\ storage = storage0
           /\ pc \in {"start", "done"}
           /\ Finished => /\ root_json.status = "error"
                          /\ response.kind # "none"
                          /\ response.kind = "json" => response.body = root_json

C7_Witness ==
    /\ Finished /\ content_type = CtNoBoundary
    /\ root_json.message = MsgNoBoundary /\ response.kind = "json"

\* the three kinds of a failed read
FailedReadMessage(ret) ==
    CASE ret = HTTPD_SOCK_ERR_TIMEOUT -> MsgTimeout
      [] ret = 0 -> MsgPeerClosed
      [] OTHER -> MsgRecvError

\* C8: a read of the main loop that returns zero or less ends the session:
\* no further read, no sink write, the sink closed, and the error object
\* names the kind of the failure
C8_FailedReadEndsSession ==
    /\ [](fail_ret.failed
            => /\ Finished /\ late_reads = 0 /\ fd # "open"
               /\ root_json = JsonObj("error", FailedReadMessage(fail_ret.ret), <<>>)
               /\ response.kind = "json" => response.body = root_json)
    /\ [][fail_ret'.failed => (written' = written /\ rx' = rx)]_vars
    /\ Cardinality({MsgTimeout, MsgPeerClosed, MsgRecvError}) = 3

C8_Witness ==
    /\ fail_ret.failed /\ fail_ret.ret = HTTPD_SOCK_ERR_TIMEOUT
    /\ fclose_calls = 1 /\ Len(written) > 0 /\ response.kind = "json"

\* C9: on a conflict the drain loop never asks the transport for more than
\* the bytes still outstanding, and with a delivering transport the whole
\* declared body has been received when the 409 is sent
C9_DrainAsksOutstanding ==
    root_json.status = "conflict"
        => /\ ~over_ask
           /\ Finished => rx = content_len

\* ------------------------------------------------------- the renderer
RECURSIVE Concat(_)
Concat(cs) == IF cs = <<>> THEN <<>> ELSE Head(cs) \o Concat(Tail(cs))

\* first occurrence of tok in doc at or after cursor, 0 when there is none
FirstAt(doc, cursor, tok) ==
    LET H == {k \in cursor..(Len(doc) - Len(tok) + 1) :
                 \A j \in 1..Len(tok) : doc[k + j - 1] = tok[j]}
    IN IF H = {} THEN 0 ELSE SetMin(H)

\* the document from cursor on in which, for each pair in order, the first
\* occurrence of the token at or after the cursor is replaced by the value
RECURSIVE Substituted(_, _, _, _)
Substituted(doc, cursor, toks, vals) ==
    IF toks = <<>> THEN SubSeq(doc, cursor, Len(doc))
    ELSE LET k == FirstAt(doc, cursor, Head(toks))
         IN IF k = 0 THEN Substituted(doc, cursor, Tail(toks), Tail(vals))
            ELSE SubSeq(doc, cursor, k - 1) \o Head(vals)
                 \o Substituted(doc, k + Len(Head(toks)), Tail(toks), Tail(vals))

\* C10: the chunks of a completed render, concatenated, are the template
\* with, per token in order, the first occurrence at or after the cursor
\* replaced; without a matching token they are the template itself
C10_RenderSubstitutesFirst ==
    (tpc = "done" /\ msg_ret = "ESP_OK")
        => /\ Concat(sent) = Substituted(template, 1, placeholders, values)
           /\ (\A i \in 1..num_placeholders :
                   FirstAt(template, 1, placeholders[i]) = 0)
                  => Concat(sent) = template

\* a placeholder that occurs twice and one that is missed by the forward scan
C10_Witness ==
    /\ tpc = "done" /\ msg_ret = "ESP_OK"
    /\ template = Str_MESSAGE_CLASS \o Str_MESSAGE_TITLE \o Str_MESSAGE_TITLE \o <<NUL>>
    /\ values[1] = <<"t">>
    /\ Concat(sent) = Str_MESSAGE_CLASS \o <<"t">> \o Str_MESSAGE_TITLE \o <<NUL>>

\* ------------------------------------------------------------------
\* the tokens the two handlers replace
Tokens ==
    {Str_MESSAGE_TITLE, Str_MESSAGE_CLASS, Str_MESSAGE_TEXT, Str_FILE_LIST_ROWS}

\* the template bytes [from, to) are a run of replaced tokens
RECURSIVE TokenRun(_, _)
TokenRun(from, to) ==
    \/ from = to
    \/ \E t \in Tokens :
           /\ from + Len(t) <= to
           /\ SubSeq(template, from, from + Len(t) - 1) = t
           /\ TokenRun(from + Len(t), to)

\* the emitted ranges lie in the document, in document order, apart
SpansInOrder ==
    /\ \A i \in 1..Len(spans) :
           /\ 1 <= spans[i][1] /\ spans[i][1] < spans[i][2]
           /\ spans[i][2] <= Len(template) + 1
    /\ \A i \in 1..(Len(spans) - 1) : spans[i][2] < spans[i + 1][1]

\* the emitted ranges and the replaced tokens tile the whole document
SpansCoverDocument ==
    /\ Len(spans) >= 1
    /\ spans[Len(spans)][2] = Len(template) + 1
    /\ TokenRun(1, spans[1][1])
    /\ \A i \in 1..(Len(spans) - 1) : TokenRun(spans[i][2], spans[i + 1][1])

\* C11: during a template response of send_message_response or
\* list_get_handler the cursor never decreases and stays within [start, end];
\* template bytes are emitted in document order, none twice; when the render
\* completes the emitted ranges and the replaced tokens cover the document.
C11_CursorMonotone ==
    /\ [](/\ 1 <= template_ptr /\ template_ptr <= Len(template) + 1
          /\ SpansInOrder
          /\ (spans # <<>> /\ tpc # "done" =>
                  spans[Len(spans)][2] <= template_ptr)
          /\ (tpc = "done" /\ msg_ret = "ESP_OK" => SpansCoverDocument))
    /\ [][template_ptr' >= template_ptr]_vars

\* a list page with two placeholders rendered to the end: the first one is
\* replaced, the cursor stands behind it, the rest went out as one range
C11_Witness ==
    /\ template = <<"a">> \o Str_FILE_LIST_ROWS \o Str_FILE_LIST_ROWS
                       \o <<NUL>>
    /\ tpc = "done" /\ msg_ret = "ESP_OK"
    /\ template_ptr = 20
    /\ spans = <<<<1, 2>>, <<20, 39>>>>

\* C12: the zero-length chunk is emitted exactly once, as the last emission
\* of a successful render; an empty prefix, an empty value or an empty file
\* list is never sent as a chunk, and a failed render emits none.
C12_TerminatorOnceAndLast ==
    /\ \A i \in 1..Len(sent) :
           sent[i] = <<>> => (i = Len(sent) /\ tpc = "done" /\ msg_ret = "ESP_OK")
    /\ (tpc = "done" /\ msg_ret = "ESP_OK") =>
           (Len(sent) >= 2 /\ sent[Len(sent)] = <<>>
            /\ spans[Len(spans)][2] = Len(template) + 1)

\* the list page for an empty directory, the placeholder at the very start:
\* neither the empty prefix nor the empty listing went out as a chunk
C12_Witness ==
    /\ template = Str_FILE_LIST_ROWS \o <<"a", NUL>>
    /\ values = <<<<>>>>
    /\ tpc = "done" /\ msg_ret = "ESP_OK"
    /\ sent = <<<<"a", NUL>>, <<>>>>

\* C13: when a chunk emission fails the render stops: no later call of
\* httpd_resp_send_chunk, no terminating chunk, the handler returns ESP_FAIL;
\* list_get_handler has freed its listing exactly once on every return.
C13_FailedEmissionAborts ==
    /\ late_sends = 0
    /\ send_failed =>
           /\ tpc = "done" /\ msg_ret = "ESP_FAIL"
           /\ \A i \in 1..Len(sent) : sent[i] # <<>>
    /\ list_frees <= 1
    /\ file_list_html # "NULL" =>
           /\ tpc = "done" <=> (file_list_html = "freed" /\ list_frees = 1)
           /\ tpc # "done" => (file_list_html = "live" /\ list_frees = 0)
    /\ file_list_html = "NULL" => list_frees = 0

\* the listing went out and the tail of list.html was refused
C13_Witness ==
    /\ send_failed /\ tpc = "done" /\ msg_ret = "ESP_FAIL"
    /\ file_list_html = "freed" /\ list_frees = 1
    /\ sent = <<<<"a">>, <<"r">>>>
    /\ template = <<"a">> \o Str_FILE_LIST_ROWS \o <<"a", NUL>>

\* ---------------------------------------------------------------- C14
HasDotDot(d) == \E i \in 1..(Len(d) - 1) : d[i] = "." /\ d[i + 1] = "."

UnderMountPoint(d) ==
    /\ Len(d) > Len(MOUNT_POINT)
    /\ SubSeq(d, 1, Len(MOUNT_POINT) + 1) = MOUNT_POINT \o <<"/">>

\* C14: for every file name build_filepath is given, the replacement loop
\* terminates, and the path it leaves starts with the mount point and "/",
\* contains no "..", and fits the buffer with its terminator; each pass of the
\* loop removes a ".." and keeps the path under the mount point
C14_PathSanitized ==
    /\ [](bpc # "call" =>
            /\ UnderMountPoint(dst)
            /\ Len(dst) <= FILE_PATH_MAX - 1
            /\ 2 * replaced <= Len(dst) - Len(MOUNT_POINT) - 1)
    /\ [](bpc = "done" =>
            /\ ~HasDotDot(dst)
            /\ path2.ptr # "NULL" =>
                   dst = build_filepath(FILE_PATH_MAX, MOUNT_POINT, path2.str))
    /\ <>(bpc = "done")

\* "../../etc/passwd" has become "/sdcard/__/__/etc/passwd" in two passes
C14_Witness ==
    /\ bpc = "done" /\ path2.str = Str_traversal /\ replaced = 2
    /\ dst = MOUNT_POINT \o <<"/", "_", "_", "/", "_", "_", "/", "e", "t", "c",
                              "/", "p", "a", "s", "s", "w", "d">>

\* ---------------------------------------------------------------- C15
\* the text of a chunk as the string functions see it: up to the first NUL
CText(c) ==
    IF \E i \in 1..Len(c) : c[i] = NUL
    THEN SubSeq(c, 1, (CHOOSE i \in 1..Len(c) :
                          c[i] = NUL /\ \A j \in 1..(i - 1) : c[j] # NUL) - 1)
    ELSE c

\* the header extractor gave up on the first chunk
ExtractionFailed ==
    Finished /\ recv_called /\ ~fail_ret.failed /\ ~parsed

\* the error the first chunk calls for
ExpectedHeaderError(c) ==
    LET cd == FirstAt(c, 1, Str_ContentDisposition)
        fs == FirstAt(c, cd, Str_FilenameEq)
    IN IF cd = 0 THEN MsgNoDisposition
       ELSE IF fs = 0 THEN MsgNoFilename
       ELSE MsgNoClosingQuote

\* C15: when the first chunk lacks Content-Disposition:, or filename=" after
\* it, or a closing quote after a non-empty name, the extractor fails with
\* the error of that case, the three errors differ, and the upload ends with
\* no filename allocated, no existence check run, no file opened or created
C15_HeaderErrorsDistinct ==
    /\ Cardinality({MsgNoDisposition, MsgNoFilename, MsgNoClosingQuote}) = 3
    /\ ExtractionFailed =>
          LET c == CText(SubSeq(req_body, 1, rx))
              cd == FirstAt(c, 1, Str_ContentDisposition)
              fs == FirstAt(c, cd, Str_FilenameEq)
              st == fs + Len(Str_FilenameEq)
          IN /\ rx > 0
             /\ cd = 0 \/ fs = 0 \/ FirstAt(c, st, <<"\"">>) \in {0, st}
             /\ root_json = JsonObj("error", ExpectedHeaderError(c), <<>>)
             /\ response.kind = "json" => response.body = root_json
             /\ retval = IF response.kind = "json" THEN "ESP_OK" ELSE "ESP_FAIL"
             /\ filename.ptr = "NULL" /\ name_allocs = 0
             /\ checks = 0
             /\ fd = "NULL" /\ fopen_calls = 0 /\ storage = storage0

\* the whole header was read, the name has no closing quote
C15_Witness ==
    /\ ExtractionFailed /\ response.kind = "json"
    /\ response.body.message = MsgNoClosingQuote
    /\ FirstAt(SubSeq(req_body, 1, rx), 1, Str_FilenameEq \o <<"a", CR>>) # 0

\* ---------------------------------------------------------------- C16
\* the errors of a malformed request
ProtocolErrors ==
    {MsgNoBoundary, MsgNoDisposition, MsgNoFilename, MsgNoClosingQuote}

\* the status lines of the 400 class
Status4xx ==
    {"400 Bad Request", "404 Not Found", "408 Request Timeout",
     "409 Conflict", "411 Length Required", "413 Content Too Large",
     "414 URI Too Long", "415 Unsupported Media Type"}

\* C16: an upload aborted for a protocol error is answered with a status of
\* the 400 class and a JSON body with status error and the message
C16_ProtocolErrorIs4xx ==
    (Finished /\ response.kind = "json"
       /\ response.body.message \in ProtocolErrors) =>
        /\ response.body.status = "error"
        /\ response.status \in Status4xx

\* ---------------------------------------------------------------- C17
\* C17: a receive timeout while the body of an upload is read is answered
\* with the status 408 (stated for the replies that could be serialised)
C17_TimeoutIs408 ==
    (Finished /\ fail_ret.failed /\ fail_ret.ret = HTTPD_SOCK_ERR_TIMEOUT
       /\ response.kind = "json") =>
        response.status = "408 Request Timeout"

\* ---------------------------------------------------------------- C18
\* C18: set_last_voltages always gets on (the take either succeeds or times
\* out); a take that timed out returns with last_voltages as it was; a take
\* that succeeded is followed by one step that replaces all 8 values and
\* gives the mutex back; nothing else writes last_voltages
C18_BoundedUpdate ==
    /\ [](ctx_pc["log"] = "slv_take" => ENABLED set_last_voltages_take)
    /\ [](mutex["logging"] = "log" => ctx_pc["log"] \in {"slv_cs", "ile_cs"})
    /\ [][ctx_pc["log"] = "slv_take" /\ ctx_pc'["log"] # "slv_take" =>
            /\ last_voltages' = last_voltages
            /\ IF mutex["logging"] = "free"
               THEN ctx_pc'["log"] = "slv_cs" /\ mutex'["logging"] = "log"
               ELSE ctx_pc'["log"] = "ile_take" /\ mutex' = mutex]_vars
    /\ [][last_voltages' # last_voltages =>
            /\ ctx_pc["log"] = "slv_cs" /\ mutex["logging"] = "log"
            /\ DOMAIN last_voltages' = 1..NUM_CHANNELS
            /\ last_voltages' = final_values
            /\ mutex'["logging"] = "free"
            /\ ctx_pc'["log"] = "ile_take"]_vars

\* the update was skipped: the task is past set_last_voltages, another context
\* holds the mutex, the fresh samples are not in last_voltages
C18_Witness ==
    /\ ctx_pc["log"] = "ile_take" /\ mutex["logging"] = "http"
    /\ ctx_pc["http"] = "rd_cs"
    /\ last_voltages # final_values /\ last_voltages[1] = 1

\* ---------------------------------------------------------------- C19
\* the labels inside the critical sections
LoggingCS == {"ile_cs", "sla_cs", "slv_cs", "rd_cs"}
PathCS == {"onl_cs", "onl_give", "rst_cs", "rst_give", "clf_cs"}

\* C19: no context holds both mutexes; a context that holds a mutex is inside
\* the function that took it, between its take and its give; in every
\* reachable state some context can take a step
C19_NoNestedLocks ==
    /\ \A c \in Ctx : ~(mutex["logging"] = c /\ mutex["path"] = c)
    /\ \A m \in DOMAIN mutex : mutex[m] \in Ctx \cup {"free"}
    /\ \A c \in Ctx :
          /\ mutex["logging"] = c <=> ctx_pc[c] \in LoggingCS
          /\ mutex["path"] = c <=> ctx_pc[c] \in PathCS
    /\ ENABLED TaskNext

\* both mutexes are held, by two contexts, while the third waits for one
C19_Witness ==
    /\ mutex["logging"] = "btn" /\ mutex["path"] = "log"
    /\ ctx_pc["http"] = "ile_take"

\* ---------------------------------------------------------------- C20
\* the context is reading or writing the characters of g_current_log_filepath
AccessesPath(c) ==
    \/ c = "log" /\ ctx_pc[c] \in {"onl_cs", "onl_give", "rst_cs", "rst_give"}
    \/ /\ c = "http" /\ ctx_pc[c] = "clf_send"
       /\ clf_ptr = "g_current_log_filepath"

\* C20: whoever reads or writes the buffer holds g_log_file_path_mutex, and
\* the reply of /current_log_file is never taken from a half-written buffer
C20_PathUnderMutex ==
    /\ \A c \in Ctx : AccessesPath(c) => mutex["path"] = c
    /\ clf_body # "partial"

\* ---------------------------------------------------------------- C21
\* what the caller of get_current_log_file_name has in hand: the literal
\* returned, or the present contents of the buffer it was pointed to
ReturnedName ==
    IF clf_ptr = "g_current_log_filepath" THEN g_current_log_filepath
    ELSE clf_ptr

\* C21: get_current_log_file_name returns the path of a log file only while
\* logging is active and the logging task has that file open (the "N/A"
\* variants count as "N/A")
C21_NameOnlyWhileOpen ==
    (ctx_pc["http"] = "clf_send" /\ ReturnedName = "log") =>
        (logging_active /\ log_file = "open")

\* ---------------------------------------------------------------- C30
\* the context is carrying out a toggle of the logging flag
IsToggle(c) == c = "btn" \/ (c = "http" /\ http_req = "toggle_logging")

\* the toggle has read the flag and has not yet written it
BetweenReadAndWrite(c) == IsToggle(c) /\ ctx_pc[c] \in {"sla_take", "sla_cs"}

ReadsChunk == pc = "recv" /\ rx' > rx

\* the chunk the step received
Chunk == SubSeq(req_body, rx + 1, rx')

\* the sink is open when the chunk is scanned: it was open before, or the
\* pass opened it
SinkOpenInStep == fd = "open" \/ fopen_calls' = fopen_calls + 1

\* where the scan for the boundary starts in the chunk c: at its first byte
\* once the data has started, behind the separator before that; 0 when the
\* chunk has no separator
ScanStart(c) ==
    IF file_data_started THEN 1
    ELSE LET sep == FirstAt(CText(c), 1, Str_CRLFCRLF)
         IN IF sep = 0 THEN 0 ELSE sep + Len(Str_CRLFCRLF)

\* the position of the boundary token in the scanned region of c, 0 if none
BoundaryAt(c) ==
    IF ScanStart(c) = 0 THEN 0 ELSE FirstAt(CText(c), ScanStart(c), boundary)

\* the bytes the step handed to fwrite
WrittenInStep == SubSeq(written', Len(written) + 1, Len(written'))

\* the trim rule for a token at offset p, position bp of the chunk c
PayloadBefore(c, bp, p) ==
    IF p >= 2 /\ c[bp - 2] = CR /\ c[bp - 1] = LF THEN p - 2
    ELSE IF p >= 1 /\ c[bp - 1] = LF THEN p - 1
    ELSE p

\* C24: when the boundary is found at offset p of the scanned region, the
\* chunk contributes its first p-2 scanned bytes if CR LF precede the token,
\* p-1 if only LF does, p otherwise; the trim reads no byte in front of the
\* region and trims nothing when p is 0
C24_TrimRule ==
    [][(ReadsChunk /\ SinkOpenInStep /\ BoundaryAt(Chunk) # 0) =>
          LET c == Chunk
              st == ScanStart(c)
              bp == BoundaryAt(c)
              n == PayloadBefore(c, bp, bp - st)
          IN /\ written' = written \o SubSeq(c, st, st + n - 1)
             /\ Len(written') = Len(written) + n
             /\ TrimInspects(c \o <<NUL>>, st, bp) \subseteq st..(bp - 1)
             /\ bp = st => n = 0]_vars

\* the token stood at the very start of a later chunk, behind a line end that
\* went out with the chunk before: nothing was trimmed, nothing written
C24_Witness ==
    /\ Finished /\ file_data_started /\ fclose_calls = 1 /\ ~fail_ret.failed
    /\ rx < content_len /\ rx > Len(boundary)
    /\ SubSeq(req_body, rx - Len(boundary) + 1, rx) = boundary
    /\ Len(written) = Len(payload) + 2

\* ---------------------------------------------------------------- C25
\* C25: the pass that finds the boundary token, in the chunk of the separator
\* or in a later one, leaves remaining at 0 and ends the session, whatever
\* part of the declared body is still outstanding; a session that has ended
\* takes no further step, so httpd_req_recv is not called again
C25_BoundaryEndsSession ==
    /\ [][(ReadsChunk /\ SinkOpenInStep /\ BoundaryAt(Chunk) # 0) =>
              (remaining' = 0 /\ pc' = "done" /\ ~fail_ret'.failed)]_vars
    /\ [][pc = "done" => (rx' = rx /\ late_reads' = late_reads)]_vars
    /\ [](Finished => ~ENABLED UploadNext)

\* the token was found while bytes of the declared body were outstanding
C25_Witness ==
    /\ Finished /\ remaining = 0 /\ rx < content_len /\ ~fail_ret.failed
    /\ fclose_calls = 1 /\ written = payload /\ Len(payload) > 0

\* ---------------------------------------------------------------- C26
\* the position of the first CRLFCRLF of the request body, 0 if none
BodySeparator == FirstAt(req_body, 1, Str_CRLFCRLF)

\* C26: while the data has not started, a pass whose chunk holds no CRLFCRLF
\* writes nothing and does not start the data; with the sink open it only
\* counts the chunk off and, bytes outstanding, reads again; and whatever
\* the file receives is a run of the body that lies behind its separator
C26_HeadersNotPersisted ==
    /\ [][(ReadsChunk /\ ~file_data_started
            /\ FirstAt(CText(Chunk), 1, Str_CRLFCRLF) = 0) =>
              /\ written' = written /\ ~file_data_started'
              /\ fd = "open" => storage' = storage
              /\ SinkOpenInStep =>
                    /\ filepath' \in DOMAIN storage'
                    /\ storage'[filepath'] = File(<<>>)
                    /\ remaining' = Consume(remaining, rx' - rx)
                    /\ remaining' > 0 => (pc' = "recv" /\ fd' = "open")]_vars
    /\ [](Len(written) > 0 =>
            /\ BodySeparator # 0
            /\ \E k \in (BodySeparator + Len(Str_CRLFCRLF))..Len(req_body) :
                   written = SubSeq(req_body, k, k + Len(written) - 1))

\* the name is known and the sink open, two chunks of header material have
\* gone by, the file is still empty
C26_Witness ==
    /\ pc = "recv" /\ fd = "open" /\ ~file_data_started
    /\ rx < BodySeparator /\ written = <<>> /\ remaining = content_len - rx
    /\ storage[filepath] = File(<<>>)

\* ---------------------------------------------------------------- C27
\* C27: with the sink open, a pass whose scan (behind the separator in the
\* chunk that holds it, from the first byte in every later chunk) finds no
\* boundary token writes every byte of the chunk from the start of the scan
\* to its end, and the session stays in the streaming state: the data has
\* started, the chunk is counted off and, bytes outstanding, the loop reads on
C27_FullChunksFlushed ==
    [][(ReadsChunk /\ SinkOpenInStep /\ ScanStart(Chunk) # 0
        /\ BoundaryAt(Chunk) = 0) =>
          /\ WrittenInStep = SubSeq(Chunk, ScanStart(Chunk), Len(Chunk))
          /\ SubSeq(written', 1, Len(written)) = written
          /\ file_data_started'
          /\ remaining' = Consume(remaining, rx' - rx)
          /\ remaining' > 0 => (pc' = "recv" /\ fd' = "open")]_vars

\* two payload bytes are in the file, the first of them a NUL, and the loop
\* is about to read on
C27_Witness ==
    /\ pc = "recv" /\ file_data_started /\ fd = "open" /\ remaining > 0
    /\ Len(written) = 2 /\ written[1] = NUL /\ written = payload

\* ---------------------------------------------------------------- C29
\* C29: in one request the existence check runs at most once, in the pass
\* that extracts the filename; the sink is opened at most once, in that same
\* pass and after the check, and not at all when the check refuses the
\* upload; no later pass checks or opens again
C29_ResolverRunsOnce ==
    /\ [](checks <= 1 /\ fopen_calls <= 1 /\ name_allocs <= 1)
    /\ [](fopen_calls = 1 => checks = 1)
    /\ [](checks = 1 => (name_allocs = 1 /\ parsed))
    /\ [](resp_status = "409 Conflict" =>
            (checks = 1 /\ fopen_calls = 0 /\ fd = "NULL"))
    /\ [][checks' # checks =>
            /\ ReadsChunk /\ checks = 0 /\ checks' = 1
            /\ filename.ptr = "NULL" /\ name_allocs' = name_allocs + 1
            /\ filepath' = build_filepath(FILE_PATH_MAX, MOUNT_POINT,
                                          filename'.str)]_vars
    /\ [][fopen_calls' # fopen_calls =>
            (checks' = checks + 1 /\ fopen_calls' = 1)]_vars

\* the upload took several reads, one of them cut a token; one check, one
\* fopen, one fclose
C29_Witness ==
    /\ Finished /\ split /\ rx = content_len
    /\ checks = 1 /\ fopen_calls = 1 /\ fclose_calls = 1 /\ Len(written) > 0

\* C28: every read of the receive loop asks for at most
\* min(remaining, UPLOAD_BUFFER_SIZE - 1) bytes, and after a read of ret > 0
\* bytes 1 <= ret <= UPLOAD_BUFFER_SIZE - 1 and the '\0' lies at index ret,
\* inside the UPLOAD_BUFFER_SIZE bytes of buf
C28_ReadFitsBuffer ==
    /\ [][/\ recv_asked' <= MIN(recv_remaining, UPLOAD_BUFFER_SIZE - 1)
          /\ recv_ret' <= recv_asked']_vars
    /\ [](recv_ret > 0
             => /\ 1 <= recv_ret /\ recv_ret <= UPLOAD_BUFFER_SIZE - 1
                /\ buf_nul = recv_ret
                /\ 0 <= buf_nul /\ buf_nul < UPLOAD_BUFFER_SIZE)

\* a read has filled all the bytes it may, and more of the body is to come
C28_Witness ==
    /\ recv_ret = UPLOAD_BUFFER_SIZE - 1 /\ buf_nul = UPLOAD_BUFFER_SIZE - 1
    /\ recv_pc = "loop" /\ recv_remaining > 0

\* C22: settings_save_channel_configs writes the RAM copy only after the blob
\* is set and committed: a call with NULL, or one whose nvs_open, nvs_set_blob
\* or nvs_commit fails, returns an error code and leaves the RAM copy as it
\* was; a call that returns ESP_OK leaves the RAM copy equal to its argument
C22_RamAfterCommit ==
    [][save_calls' # save_calls
         => /\ save_failed_at' \in {"arg", "open", "set", "commit"}
                => /\ save_err' # "ESP_OK"
                   /\ channel_configs' = channel_configs
            /\ save_err' = "ESP_OK"
                => /\ save_failed_at' = "none"
                   /\ save_configs'.ptr # "NULL"
                   /\ channel_configs' = save_configs'.val
            /\ save_err' # "ESP_OK" => channel_configs' = channel_configs]_vars

\* a commit has failed on an array that differs from the RAM copy, and the
\* store has kept the blob that was set
C22_Witness ==
    /\ save_failed_at = "commit" /\ save_err # "ESP_OK"
    /\ save_configs.ptr # "NULL" /\ save_configs.val # channel_configs
    /\ nvs_blob = save_configs.val

\* list.html with its first placeholder replaced by rows
ExpectedPage(doc, rows) ==
    LET at == FirstAt(doc, 1, Str_FILE_LIST_ROWS)
    IN IF at = 0 THEN doc
       ELSE SubSeq(doc, 1, at - 1) \o rows
                \o SubSeq(doc, at + Len(Str_FILE_LIST_ROWS), Len(doc))

\* C23: when realloc fails, list_get_handler writes no further row and the
\* rows written so far stay as they are in the block file_list_html still
\* points to; if no send fails the response is list.html with these rows in
\* the place of the placeholder, ended by the empty chunk; and the block is
\* freed exactly once
C23_PartialListing ==
    /\ [][~realloc_failed /\ realloc_failed'
             => /\ list_block # 0 /\ list_block' = list_block
                /\ file_list_html' = "live"
                /\ list_buf' = list_buf /\ file_list_len' = file_list_len
                /\ rows_written' = rows_written
                /\ list_pc' = "emit" /\ values'[1] = list_buf]_vars
    /\ [][realloc_failed
             => /\ list_buf' = list_buf /\ list_block' = list_block
                /\ rows_written' = rows_written]_vars
    /\ [](realloc_failed /\ tpc = "done"
             => /\ list_frees = 1 /\ file_list_html = "freed"
                /\ ~send_failed
                       => /\ msg_ret = "ESP_OK"
                          /\ sent # <<>> /\ sent[Len(sent)] = <<>>
                          /\ Flatten(sent) = ExpectedPage(template, list_buf))

\* realloc has failed behind some rows with files still unread, and the page
\* has gone out with these rows between the two parts of list.html
C23_Witness ==
    /\ realloc_failed /\ tpc = "done" /\ msg_ret = "ESP_OK"
    /\ rows_written > 0 /\ dir_entries # <<>> /\ list_buf # <<>>
    /\ Len(sent) = 4 /\ sent[2] = list_buf
    /\ list_frees = 1 /\ file_list_html = "freed"

\* C39, as stated: a pass of the receive loop leaves the loop on ret <= 0 or
\* makes remaining strictly smaller
C39_PassReadsOrDecreases ==
    [][\/ recv_ret' <= 0 /\ recv_pc' = "done"
       \/ recv_ret' > 0 /\ recv_remaining' < recv_remaining]_vars

\* C39: the receive loop ends when every read returns: a pass leaves the loop
\* (on ret <= 0, or by goto cleanup_and_send_json from the handling of the
\* chunk) or makes remaining strictly smaller, remaining is never negative
\* and, at the head of the loop, never more than what is left of the declared
\* length, so the bytes received never exceed content_len
C39_LoopTerminates ==
    /\ [][\/ recv_pc' = "done"
          \/ recv_ret' > 0 /\ recv_remaining' < recv_remaining]_vars
    /\ [][recv_ret' <= 0 => recv_pc' = "done"]_vars
    /\ [](recv_remaining >= 0 /\ recv_rx <= recv_len)
    /\ [](recv_pc = "loop"
             => /\ recv_remaining > 0
                /\ recv_remaining <= recv_len - recv_rx)
    /\ <>(recv_pc = "done")

\* the loop has ended after more than one read, by a chunk that set remaining
\* to 0 while bytes of the body were still to come
C39_Witness ==
    /\ recv_pc = "done" /\ recv_ret > 0 /\ recv_remaining = 0
    /\ recv_rx > recv_ret /\ recv_rx < recv_len

\* C32: the file name extracted from the part header is the first
\* min(L, MAX_FILENAME_LEN) bytes between filename=" and the next quote: a
\* longer name is cut, not refused, and the path is built from the cut name
C32_NameTruncated ==
    /\ x_pc \in {"named", "built"}
           => x_filename = SubSeq(hdr_name, 1,
                                  MIN(Len(hdr_name), MAX_FILENAME_LEN))
    /\ x_pc = "built"
           => /\ Len(x_filepath) = Len(MOUNT_POINT) + 1 + Len(x_filename)
              /\ UnderMountPoint(x_filepath)
              /\ ~HasDotDot(x_filepath)
              /\ \A i \in 1..Len(x_filename) :
                     LET c == x_filepath[Len(MOUNT_POINT) + 1 + i]
                     IN \/ c = x_filename[i]
                        \/ c = "_" /\ x_filename[i] = "."

\* a name of more than MAX_FILENAME_LEN bytes whose ".." is cut in two: the
\* path ends with the one dot that is left
C32_Witness ==
    /\ x_pc = "built" /\ Len(hdr_name) > MAX_FILENAME_LEN
    /\ Len(x_filename) = MAX_FILENAME_LEN
    /\ hdr_name[MAX_FILENAME_LEN] = "."
    /\ hdr_name[MAX_FILENAME_LEN + 1] = "."
    /\ x_filepath[Len(x_filepath)] = "."

\* C31: in list_get_handler, after every row the length of the listing is
\* below the size of the buffer, the estimate that the space is ensured for
\* is at least the length of the row, and the row is in the listing whole
C31_RowsComplete ==
    [][rows_written' = rows_written + 1
         => LET row == RowText(Head(dir_entries).d_name)
            IN /\ file_list_len' < file_list_buffer_size'
               /\ list_buf' = list_buf \o row
               /\ RowEstimate(Head(dir_entries).d_name) >= Len(row)]_vars

\* C33: open_next_log_file never opens an existing file for writing; the
\* file it returns is log_N.csv for the smallest N without a file, and its
\* name is published; when it returns NULL it has created and truncated
\* nothing
C33_NextFreeLog ==
    /\ onl_truncated = {}
    /\ onl_pc = "done" /\ onl_ret > 0
           => /\ onl_created = {onl_ret}
              /\ \A k \in 1..(onl_ret - 1) : k \in card_logs
              /\ onl_name = onl_ret
    /\ onl_pc = "done" /\ onl_ret = -1 => onl_created = {}

\* ---------------------------------------------------------------- C36
\* the receive loop was left at its end, not by a jump: no read failed, the
\* filename was extracted and the sink was opened
LoopEndedWithSink ==
    Finished /\ ~fail_ret.failed /\ filename.ptr = "freed" /\ fd = "closed"

\* C36: when the receive loop ends with a filename extracted and the sink
\* opened, the handler's reply is the success object with status 200, and it
\* is what the client receives whenever the reply can be serialised; this
\* holds also when all declared bytes were read without the boundary token
\* being detected, and when the header/body separator was never found, in
\* which case the destination file exists and is empty
C36_LoopEndSucceeds ==
    LoopEndedWithSink =>
        /\ root_json = JsonObj("success", MsgSuccess, filename.str)
        /\ resp_status = "200 OK"
        /\ response.kind = "json" => response = JsonResponse("200 OK", root_json)
        /\ retval = "ESP_OK" <=> response.kind = "json"
        /\ ~file_data_started =>
               (written = <<>> /\ storage[DestPath] = File(<<>>))

\* all declared bytes were read, the separator was never found and the
\* boundary token therefore never looked for; the client is told success
C36_Witness ==
    /\ LoopEndedWithSink /\ ~file_data_started /\ rx = content_len
    /\ Len(payload) > 0 /\ storage[DestPath] = File(<<>>)
    /\ response = JsonResponse("200 OK", JsonObj("success", MsgSuccess, <<"a">>))

\* ---------------------------------------------------------------- C37
\* a read of the main loop failed after the sink had been opened
FailedAfterOpen == Finished /\ fail_ret.failed /\ fopen_calls > 0

OneSet == handed \cup {Zeros}

\* last_voltages is in the middle of an update
Torn == last_voltages \notin OneSet

\* C38: under every interleaving of adc_handler with set_last_voltages, the
\* eight values of a response are those of one call of set_last_voltages or
\* the initial zeros, never a mix of two updates; they are all zero when the
\* handler did not get the mutex; a copy runs only while its context holds
\* the mutex, and last_voltages is torn only while the logging task holds it
C38_ReportsOneSet ==
    /\ [](reported # <<>> => reported \in OneSet)
    /\ [](ctx_pc["http"] = "rd_send" => voltages \in OneSet)
    /\ [][(ctx_pc["http"] = "rd_take" /\ ctx_pc'["http"] # "rd_take"
            /\ mutex["logging"] # "free") =>
              (voltages' = Zeros /\ ctx_pc'["http"] = "rd_send")]_vars
    /\ [](ctx_pc["http"] = "rd_copy" => mutex["logging"] = "http")
    /\ [](Torn => (mutex["logging"] = "log" /\ ctx_pc["log"] = "slv_copy"))

\* a response carries the first update while the second one is half way
\* through its copy
C38_Witness ==
    /\ reported = [i \in 1..NUM_CHANNELS |-> 1] /\ Torn
    /\ last_voltages[1] = 2 /\ last_voltages[NUM_CHANNELS] = 1
    /\ ctx_pc["http"] = "rd_send" /\ voltages = Zeros

\* ---------------------------------------------------------------- C35
\* C35: when delete_handler or delete_all_handler has returned, the response
\* object it created has been released exactly once, on every path, the one
\* that answers 500 after a failed serialisation included
C35_JsonReleasedOnce ==
    del_pc = "done" => json_deletes = json_creates

\* ---------------------------------------------------------------- C34
\* the log file is closed, its name reset and the LED red
LoggingStopped ==
    log_file = "NULL" /\ g_current_log_filepath = "N/A" /\ led = "red"

\* a log file is open and the LED green
LoggingStarted == log_file = "open" /\ led = "green"

\* C34: under fair scheduling, once the logging flag is inactive while the
\* task has a log file open, the task eventually has closed the file, reset
\* the name to "N/A" and set the LED red, unless the flag is switched on
\* again first; and once the flag is active with no file open, the task
\* eventually has a log file open and the LED green, unless the flag is
\* switched off again first
C34_FlagFollowed ==
    /\ (~logging_active /\ log_file = "open") ~>
            (LoggingStopped \/ logging_active)
    /\ (logging_active /\ log_file = "NULL") ~>
            (LoggingStarted \/ ~logging_active)

====
